---- MODULE Spec2Model ----
(***************************************************************************)
(* PromptPM: the SemVer engine, the local registry and the dependency      *)
(* resolver, as state machines over one registry directory.                *)
(*                                                                         *)
(* Text (names, versions, range expressions, file names) is a sequence of  *)
(* one-character strings, ordered as Python orders str: by code point.     *)
(***************************************************************************)
EXTENDS Integers, Sequences, FiniteSets, TLC

VARIABLES
    disk,       \* the registry directory: name -> dirname -> the tree at R/modules/name/dirname
    published,  \* history: <<name, version>> -> the tree install left at R/modules/name/version
    op,         \* the registry call that ran last: its arguments, outcome and the disk before it
    tampers,    \* how many out-of-band edits of the registry directory were made
    rootRaw,    \* the root module's dependencies list, as declared
    status,     \* resolve_for_module: "idle", "running", "raising", "done", "error"
    frames,     \* the call stack of resolve_for_module / _visit
    visiting,   \* resolver.py: visiting
    visited,    \* resolver.py: visited
    resolved,   \* resolver.py: resolved
    failure,    \* the DependencyError resolve_for_module raised
    selInput,   \* a requirement handed to _select_installed_version
    selOutput,  \* what _select_installed_version did with it
    installers, \* the install calls in progress: process -> its position in LocalRegistry.install
    cwd,        \* the module directory the commands are run on
    command,    \* the command line invocation that ran last: its steps, payloads and exit code
    given,      \* the version strings handed to the functions of semver.py
    semver,     \* what the function of semver.py called last did with them
    yamlDoc,    \* the parsed promptpm.yaml handed to the validator or the test runner
    checked     \* what validate_prompt_module or run_prompt_module_tests did with it

vars == <<disk, published, op, tampers, rootRaw, status, frames, visiting,
          visited, resolved, failure, selInput, selOutput, installers,
          cwd, command, given, semver, yamlDoc, checked>>

registryVars == <<disk, published, op, tampers>>
resolverVars == <<rootRaw, status, frames, visiting, visited, resolved, failure>>
selectVars == <<selInput, selOutput>>
cliVars == <<cwd, command>>
processVars == <<installers, cliVars>>
semverVars == <<given, semver>>
schemaVars == <<yamlDoc, checked>>

(***************************************************************************)
(* Text                                                                    *)
(***************************************************************************)
Digits == <<"0", "1", "2", "3", "4", "5", "6", "7", "8", "9">>

Lower == <<"a", "b", "c", "d", "e", "f", "g", "h", "i", "j", "k", "l", "m",
           "n", "o", "p", "q", "r", "s", "t", "u", "v", "w", "x", "y", "z">>

Upper == <<"A", "B", "C", "D", "E", "F", "G", "H", "I", "J", "K", "L", "M",
           "N", "O", "P", "Q", "R", "S", "T", "U", "V", "W", "X", "Y", "Z">>

Punct == <<"\n", " ", "*", "+", ",", "-", ".", "/", "<", "=", ">", "@", "\\", "^", "_", "|", "~">>

PunctCode == <<10, 32, 42, 43, 44, 45, 46, 47, 60, 61, 62, 64, 92, 94, 95, 124, 126>>

Range(s) == {s[i] : i \in DOMAIN s}

PosIn(s, c) == CHOOSE i \in DOMAIN s : s[i] = c

\* The code point of a character (Python compares str by code point).
OrdTable ==
    [c \in Range(Digits) \cup Range(Lower) \cup Range(Upper) \cup Range(Punct) |->
        IF c \in Range(Digits) THEN 47 + PosIn(Digits, c)
        ELSE IF c \in Range(Upper) THEN 64 + PosIn(Upper, c)
        ELSE IF c \in Range(Lower) THEN 96 + PosIn(Lower, c)
        ELSE PunctCode[PosIn(Punct, c)]]

Ord(c) == OrdTable[c]

IsDigit(c) == c \in Range(Digits)

\* str.isdigit()
IsDigits(s) == Len(s) > 0 /\ \A i \in DOMAIN s : IsDigit(s[i])

\* Python's str < str, from character i on: the first difference decides, and
\* a proper prefix is smaller.
RECURSIVE StrLessFrom(_, _, _)
StrLessFrom(s, t, i) ==
    IF i > Len(s) THEN i <= Len(t)
    ELSE IF i > Len(t) THEN FALSE
    ELSE IF s[i] = t[i] THEN StrLessFrom(s, t, i + 1)
    ELSE Ord(s[i]) < Ord(t[i])

StrLess(s, t) == StrLessFrom(s, t, 1)

\* The first index of character c in s, 0 when there is none.
IndexOf(s, c) ==
    IF \E i \in DOMAIN s : s[i] = c
    THEN CHOOSE i \in DOMAIN s : s[i] = c /\ \A j \in 1..(i - 1) : s[j] # c
    ELSE 0

Tail0(s, i) == SubSeq(s, i, Len(s))

\* str.split(c) for a one-character separator
RECURSIVE Split(_, _)
Split(s, c) ==
    LET i == IndexOf(s, c)
    IN  IF i = 0 THEN <<s>>
        ELSE <<SubSeq(s, 1, i - 1)>> \o Split(Tail0(s, i + 1), c)

\* The whitespace of the alphabet.
IsSpace(c) == c \in {" ", "\n"}

\* str.strip()
RECURSIVE Strip(_)
Strip(s) ==
    IF s = <<>> THEN s
    ELSE IF IsSpace(s[1]) THEN Strip(Tail(s))
    ELSE IF IsSpace(s[Len(s)]) THEN Strip(SubSeq(s, 1, Len(s) - 1))
    ELSE s

\* sep.join(parts)
RECURSIVE Join(_, _)
Join(parts, sep) ==
    IF parts = <<>> THEN <<>>
    ELSE IF Len(parts) = 1 THEN parts[1]
    ELSE parts[1] \o sep \o Join(Tail(parts), sep)

\* int(s) for a string of decimal digits
RECURSIVE ToInt(_)
ToInt(s) ==
    IF s = <<>> THEN 0
    ELSE 10 * ToInt(SubSeq(s, 1, Len(s) - 1)) + (Ord(s[Len(s)]) - 48)

StartsWith(s, p) == Len(s) >= Len(p) /\ SubSeq(s, 1, Len(p)) = p

(***************************************************************************)
(* semver.py                                                               *)
(***************************************************************************)
\* The text before the first c; all of it when c does not occur.
Before(s, c) == IF IndexOf(s, c) = 0 THEN s ELSE SubSeq(s, 1, IndexOf(s, c) - 1)

\* The dot-separated parts of the text after the first c; none when c does not occur.
PartsAfter(s, c) ==
    IF IndexOf(s, c) = 0 THEN <<>> ELSE Split(Tail0(s, IndexOf(s, c) + 1), ".")

IsIdentChar(c) == c \in Range(Digits) \cup Range(Lower) \cup Range(Upper) \cup {"-"}

\* [0-9A-Za-z-]+
IsIdentifier(s) == Len(s) > 0 /\ \A i \in DOMAIN s : IsIdentChar(s[i])

\* (0|[1-9]\d*)
IsCoreNumber(s) == IsDigits(s) /\ (Len(s) = 1 \/ s[1] # "0")

\* _validate_identifiers(..., check_numeric_leading_zero=True)
HasLeadingZero(s) == IsDigits(s) /\ Len(s) > 1 /\ s[1] = "0"

SemanticVersion(major, minor, patch, prerelease, build) ==
    [major |-> major, minor |-> minor, patch |-> patch,
     prerelease |-> prerelease, build |-> build]

NoVersion == SemanticVersion(0, 0, 0, <<>>, <<>>)

\* Raising SemVerError is the result [ok |-> FALSE].
SemVerError == [ok |-> FALSE, v |-> NoVersion]

\* SemanticVersion.parse: strip, _SEMVER_PATTERN.fullmatch, then __post_init__.
\* The core holds only digits and dots, so the first "+" starts the build and
\* the first "-" before it starts the prerelease.
ParseVersion(value) ==
    LET Matched(core, pre, build) ==
            IF \/ Len(core) # 3
               \/ \E i \in DOMAIN core : ~IsCoreNumber(core[i])
               \/ \E i \in DOMAIN pre : ~IsIdentifier(pre[i])
               \/ \E i \in DOMAIN build : ~IsIdentifier(build[i])
            THEN SemVerError
            ELSE IF \E i \in DOMAIN pre : HasLeadingZero(pre[i]) THEN SemVerError
            ELSE [ok |-> TRUE,
                  v |-> SemanticVersion(ToInt(core[1]), ToInt(core[2]), ToInt(core[3]),
                                        pre, build)]
        Normalized(n) ==
            Matched(Split(Before(Before(n, "+"), "-"), "."),
                    PartsAfter(Before(n, "+"), "-"),
                    PartsAfter(n, "+"))
    IN  Normalized(Strip(value))

Min(a, b) == IF a < b THEN a ELSE b

\* Numeric identifiers compared as text (a variant of the zip loop).
ComparePrereleaseDecidesAsText(l, r) ==
    IF l = r THEN 0
    ELSE IF IsDigits(l) /\ ~IsDigits(r) THEN -1
    ELSE IF ~IsDigits(l) /\ IsDigits(r) THEN 1
    ELSE IF StrLess(l, r) THEN -1
    ELSE IF StrLess(r, l) THEN 1
    ELSE 0

\* One pair of the zip loop of _compare_prerelease: 0 when the loop continues.
ComparePrereleaseDecides(l, r) ==
    IF l = r THEN 0
    ELSE IF IsDigits(l) /\ IsDigits(r)
         THEN (IF ToInt(l) < ToInt(r) THEN -1 ELSE IF ToInt(l) > ToInt(r) THEN 1 ELSE 0)
    ELSE IF IsDigits(l) /\ ~IsDigits(r) THEN -1
    ELSE IF ~IsDigits(l) /\ IsDigits(r) THEN 1
    ELSE IF StrLess(l, r) THEN -1
    ELSE IF StrLess(r, l) THEN 1
    ELSE 0

\* _compare_prerelease: the first pair that decides, else the shorter list is smaller.
ComparePrerelease(left, right) ==
    LET Zipped(decided) ==
            IF decided # {}
            THEN LET First(i) == ComparePrereleaseDecides(left[i], right[i])
                 IN  First(CHOOSE i \in decided : \A j \in decided : i <= j)
            ELSE IF Len(left) < Len(right) THEN -1
            ELSE IF Len(left) > Len(right) THEN 1
            ELSE 0
    IN  IF left = <<>> /\ right = <<>> THEN 0
        ELSE IF left = <<>> THEN 1
        ELSE IF right = <<>> THEN -1
        ELSE Zipped({i \in 1..Min(Len(left), Len(right)) :
                        ComparePrereleaseDecides(left[i], right[i]) # 0})

\* Python's tuple comparison of (major, minor, patch)
CoreLess(a, b) ==
    \/ a.major < b.major
    \/ a.major = b.major /\ a.minor < b.minor
    \/ a.major = b.major /\ a.minor = b.minor /\ a.patch < b.patch

\* SemanticVersion.compare_to / compare_versions
CompareVersions(a, b) ==
    IF CoreLess(a, b) THEN -1
    ELSE IF CoreLess(b, a) THEN 1
    ELSE ComparePrerelease(a.prerelease, b.prerelease)

VersionComparator(operator, version) == [operator |-> operator, version |-> version]

\* VersionComparator.matches
ComparatorMatches(c, candidate) ==
    LET Holds(cmp) ==
            IF c.operator = "<" THEN cmp < 0
            ELSE IF c.operator = "<=" THEN cmp <= 0
            ELSE IF c.operator = ">" THEN cmp > 0
            ELSE IF c.operator = ">=" THEN cmp >= 0
            ELSE cmp = 0
    IN  Holds(CompareVersions(candidate, c.version))

\* The next major version whatever the base (a variant of _caret_upper_bound).
CaretUpperBoundMajor(base) == SemanticVersion(base.major + 1, 0, 0, <<>>, <<>>)

\* _caret_upper_bound
CaretUpperBound(base) ==
    IF base.major > 0 THEN SemanticVersion(base.major + 1, 0, 0, <<>>, <<>>)
    ELSE IF base.minor > 0 THEN SemanticVersion(0, base.minor + 1, 0, <<>>, <<>>)
    ELSE SemanticVersion(0, 0, base.patch + 1, <<>>, <<>>)

TokenError == [ok |-> FALSE, comparators |-> <<>>]

TokenOk(comparators) == [ok |-> TRUE, comparators |-> comparators]

\* The operators of _parse_range_token, in the order the loop tries them.
RangeOperators ==
    << [text |-> <<">", "=">>, operator |-> ">="],
       [text |-> <<"<", "=">>, operator |-> "<="],
       [text |-> <<">">>, operator |-> ">"],
       [text |-> <<"<">>, operator |-> "<"],
       [text |-> <<"=">>, operator |-> "="] >>

\* The comparators of "^base", and of "~base".
CaretComparators(base) ==
    IF ~base.ok THEN TokenError
    ELSE TokenOk(<<VersionComparator(">=", base.v),
                   VersionComparator("<", CaretUpperBound(base.v))>>)

TildeComparators(base) ==
    IF ~base.ok THEN TokenError
    ELSE TokenOk(<<VersionComparator(">=", base.v),
                   VersionComparator("<",
                       SemanticVersion(base.v.major, base.v.minor + 1, 0, <<>>, <<>>))>>)

OneComparator(operator, parsed) ==
    IF ~parsed.ok THEN TokenError ELSE TokenOk(<<VersionComparator(operator, parsed.v)>>)

\* `for operator in (">=", "<=", ">", "<", "=")`, from the i-th operator on,
\* then the exact version.
RECURSIVE ParseOperatorToken(_, _)
ParseOperatorToken(token, i) ==
    IF i > Len(RangeOperators) THEN OneComparator("=", ParseVersion(token))
    ELSE IF StartsWith(token, RangeOperators[i].text)
    THEN IF Len(token) = Len(RangeOperators[i].text) THEN TokenError
         ELSE OneComparator(RangeOperators[i].operator,
                            ParseVersion(Tail0(token, Len(RangeOperators[i].text) + 1)))
    ELSE ParseOperatorToken(token, i + 1)

\* _parse_range_token
ParseRangeToken(token) ==
    IF token = <<"*">> THEN TokenOk(<<>>)
    ELSE IF StartsWith(token, <<"^">>) THEN CaretComparators(ParseVersion(Tail(token)))
    ELSE IF StartsWith(token, <<"~">>) THEN TildeComparators(ParseVersion(Tail(token)))
    ELSE ParseOperatorToken(token, 1)

\* str.split("||")
RECURSIVE SplitOr(_)
SplitOr(s) ==
    LET At(hits) ==
            IF hits = {} THEN <<s>>
            ELSE LET Cut(i) == <<SubSeq(s, 1, i - 1)>> \o SplitOr(Tail0(s, i + 2))
                 IN  Cut(CHOOSE k \in hits : \A j \in hits : k <= j)
    IN  At({i \in 1..(Len(s) - 1) : s[i] = "|" /\ s[i + 1] = "|"})

NotEmpty(s) == s # <<>>

\* alternative_text.replace(",", " ").split()
Tokens(text) ==
    SelectSeq(Split([i \in DOMAIN text |->
                        IF text[i] = "," \/ IsSpace(text[i]) THEN " " ELSE text[i]], " "),
              NotEmpty)

RECURSIVE Flatten(_)
Flatten(seqs) == IF seqs = <<>> THEN <<>> ELSE seqs[1] \o Flatten(Tail(seqs))

RangeError == [ok |-> FALSE, alternatives |-> <<>>]

\* One alternative of parse_version_range: its tokens' comparators, AND-ed.
ParseAlternative(text) ==
    LET Extended(parsed) ==
            IF parsed = <<>> \/ \E i \in DOMAIN parsed : ~parsed[i].ok
            THEN TokenError
            ELSE TokenOk(Flatten([i \in DOMAIN parsed |-> parsed[i].comparators]))
        Each(tokens) == Extended([i \in DOMAIN tokens |-> ParseRangeToken(tokens[i])])
    IN  Each(Tokens(text))

\* parse_version_range
ParseVersionRange(expression) ==
    LET Collected(alts) ==
            IF \E i \in DOMAIN alts : ~alts[i].ok THEN RangeError
            ELSE [ok |-> TRUE, alternatives |-> [i \in DOMAIN alts |-> alts[i].comparators]]
        Alternatives(parts) ==
            Collected([i \in DOMAIN parts |-> ParseAlternative(Strip(parts[i]))])
        Normalized(n) ==
            IF n = <<>> \/ n = <<"*">>
            THEN [ok |-> TRUE, alternatives |-> << <<>> >>]
            ELSE Alternatives(SplitOr(n))
    IN  Normalized(Strip(expression))

\* VersionRange.matches
RangeMatches(range, candidate) ==
    \E i \in DOMAIN range.alternatives :
        \A j \in DOMAIN range.alternatives[i] :
            ComparatorMatches(range.alternatives[i][j], candidate)

\* satisfies_version_range: [ok |-> FALSE] when the expression raises SemVerError.
SatisfiesVersionRange(version, expression) ==
    LET Matches(range) ==
            IF ~range.ok THEN [ok |-> FALSE, value |-> FALSE]
            ELSE [ok |-> TRUE, value |-> RangeMatches(range, version)]
    IN  Matches(ParseVersionRange(expression))

(***************************************************************************)
(* registry.py: the registry directory                                     *)
(*                                                                         *)
(* A directory tree is [files, links]: files maps each regular file's      *)
(* relative path (a sequence of segments) to its content, links is the set *)
(* of paths that are symbolic links. The registry is name -> dirname ->    *)
(* tree, for R/modules/<name>/<dirname>.                                   *)
(***************************************************************************)
MODULES_DIRNAME == <<"m", "o", "d", "u", "l", "e", "s">>

IMMUTABILITY_MANIFEST_FILENAME == <<".", "p", "r", "o", "m", "p", "t", "p", "m", "_", "i", "m", "m", "u", "t", "a", "b", "l", "e", ".", "j", "s", "o", "n">>

ConfigFileName == <<"p", "r", "o", "m", "p", "t", "p", "m", ".", "y", "a", "m", "l">>

TmpSuffix == <<".", "t", "m", "p">>

ManifestPath == <<IMMUTABILITY_MANIFEST_FILENAME>>

ConfigPath == <<ConfigFileName>>

\* File contents. Every content has the same fields so that any two compare.
ModuleDocument(name, version, dependencies) ==
    [kind |-> "module", name |-> name, version |-> version,
     dependencies |-> dependencies, algorithm |-> "", files |-> <<>>, data |-> 0,
     schema |-> "valid", tests |-> <<>>]

DataFile(data) ==
    [kind |-> "data", name |-> <<>>, version |-> <<>>,
     dependencies |-> <<>>, algorithm |-> "", files |-> <<>>, data |-> data,
     schema |-> "", tests |-> <<>>]

ManifestPayload(name, version, algorithm, files) ==
    [kind |-> "manifest", name |-> name, version |-> version,
     dependencies |-> <<>>, algorithm |-> algorithm, files |-> files, data |-> 0,
     schema |-> "", tests |-> <<>>]

\* Variant: a digest that does not depend on the bytes.
Sha256FileBlind(content) == [sha256of |-> 0]

\* _sha256_file: the digest stands for the bytes it was computed from
\* (sha256 is taken to be collision-free).
Sha256File(content) == [sha256of |-> content]

Tree(files, links) == [files |-> files, links |-> links]

EmptyTree == Tree(<<>>, {})

IsPrefix(prefix, p) == Len(prefix) <= Len(p) /\ SubSeq(p, 1, Len(prefix)) = prefix

\* sorted(...) of a set of str
RECURSIVE SortStrs(_)
SortStrs(S) ==
    LET From(least) == <<least>> \o SortStrs(S \ {least})
    IN  IF S = {} THEN <<>>
        ELSE From(CHOOSE x \in S : \A y \in S : x = y \/ StrLess(x, y))

WalkResult(ok, paths) == [ok |-> ok, paths |-> paths]

\* _iter_files_sorted: os.walk top-down, the file names of a directory sorted,
\* then its subdirectories in sorted order. A symbolic link ends the walk with
\* DependencyError (ok = FALSE) after the files yielded before it.
RECURSIVE WalkDir(_, _)
RECURSIVE WalkSubdirs(_, _, _, _)
WalkDir(tree, prefix) ==
    LET Listed(filenames, dirnames) ==
            LET Yielded(stop) == [i \in 1..(stop - 1) |-> prefix \o <<filenames[i]>>]
                Checked(linked) ==
                    IF linked = {}
                    THEN WalkSubdirs(tree, prefix, dirnames, Yielded(Len(filenames) + 1))
                    ELSE WalkResult(FALSE, Yielded(CHOOSE i \in linked : \A j \in linked : i <= j))
            IN  Checked({i \in DOMAIN filenames : (prefix \o <<filenames[i]>>) \in tree.links})
        Entries(below) ==
            Listed(SortStrs({p[Len(prefix) + 1] : p \in {q \in below : Len(q) = Len(prefix) + 1}}),
                   SortStrs({p[Len(prefix) + 1] : p \in {q \in below : Len(q) > Len(prefix) + 1}}))
    IN  Entries({p \in DOMAIN tree.files \cup tree.links :
                    IsPrefix(prefix, p) /\ Len(p) > Len(prefix)})

WalkSubdirs(tree, prefix, dirnames, acc) ==
    LET Entered(sub) ==
            IF ~sub.ok THEN WalkResult(FALSE, acc \o sub.paths)
            ELSE WalkSubdirs(tree, prefix, Tail(dirnames), acc \o sub.paths)
    IN  IF dirnames = <<>> THEN WalkResult(TRUE, acc)
        ELSE Entered(WalkDir(tree, prefix \o <<dirnames[1]>>))

IterFilesSorted(tree) == WalkDir(tree, <<>>)

\* Path.as_posix() of a relative path
AsPosix(path) == Join(path, <<"/">>)

Restrict(f, S) == [x \in S |-> f[x]]

\* _copy_tree_deterministic into a fresh staging directory. copyFault = k > 0
\* makes the k-th shutil.copy2 raise; a symbolic link in the source raises
\* from the walk. The tree holds what was copied before the error.
CopyTreeDeterministic(source, copyFault) ==
    LET Copied(walk) ==
            LET faulty == copyFault > 0 /\ copyFault <= Len(walk.paths)
                done == IF faulty THEN copyFault - 1 ELSE Len(walk.paths)
            IN  [ok |-> walk.ok /\ ~faulty,
                 tree |-> Tree(Restrict(source.files, {walk.paths[i] : i \in 1..done}), {})]
    IN  Copied(IterFilesSorted(source))

\* Variant: the manifest file itself is not excluded from the list.
ManifestEntriesAll(tree) ==
    LET Listed(listed) ==
            [i \in DOMAIN listed |->
                [path |-> AsPosix(listed[i]), sha256 |-> Sha256File(tree.files[listed[i]])]]
    IN  Listed(IterFilesSorted(tree).paths)

\* The files list _write_immutability_manifest computes for a staged tree.
ManifestEntries(tree) ==
    LET Listed(listed) ==
            [i \in DOMAIN listed |->
                [path |-> AsPosix(listed[i]), sha256 |-> Sha256File(tree.files[listed[i]])]]
    IN  Listed(SelectSeq(IterFilesSorted(tree).paths,
                         LAMBDA p : AsPosix(p) # IMMUTABILITY_MANIFEST_FILENAME))

WithFile(tree, path, content) ==
    Tree([p \in DOMAIN tree.files \cup {path} |-> IF p = path THEN content ELSE tree.files[p]],
         tree.links)

WithoutFile(tree, path) ==
    Tree(Restrict(tree.files, DOMAIN tree.files \ {path}), tree.links \ {path})

\* _write_immutability_manifest: open(manifest_path, "w") fails when the
\* staged tree holds a directory of that name, or when the write is made to fail.
WriteImmutabilityManifest(tree, name, version, writeFault) ==
    LET blocked == \E p \in DOMAIN tree.files : Len(p) > 1 /\ p[1] = IMMUTABILITY_MANIFEST_FILENAME
    IN  [ok |-> ~blocked /\ ~writeFault,
         tree |-> IF blocked \/ writeFault THEN tree
                  ELSE WithFile(tree, ManifestPath,
                                ManifestPayload(name, version, "sha256", ManifestEntries(tree)))]

(***************************************************************************)
(* registry.py: LocalRegistry                                              *)
(***************************************************************************)
IsSegmentChar(c) ==
    c \in Range(Digits) \cup Range(Lower) \cup Range(Upper) \cup {".", "_", "+", "-"}

\* [A-Za-z0-9][A-Za-z0-9._+-]* over the whole text
IsSegmentText(text) ==
    /\ text # <<>>
    /\ text[1] \in Range(Digits) \cup Range(Lower) \cup Range(Upper)
    /\ \A i \in DOMAIN text : IsSegmentChar(text[i])

\* _SAFE_SEGMENT_PATTERN.match(value): in Python `$` matches at the end of
\* the string and also just before a newline that ends the string.
MatchesSafeSegmentPattern(value) ==
    IF value # <<>> /\ value[Len(value)] = "\n"
    THEN IsSegmentText(SubSeq(value, 1, Len(value) - 1))
    ELSE IsSegmentText(value)

\* _validate_segment: TRUE when the value is returned, FALSE when it raises.
ValidateSegment(value) ==
    /\ value # <<>>
    /\ value \notin {<<".">>, <<".", ".">>}
    /\ \A i \in DOMAIN value : value[i] # "/" /\ value[i] # "\\"
    /\ MatchesSafeSegmentPattern(value)

\* os.path.isdir / os.path.exists of R/modules/<name>/<dirname>
HasDir(d, name, dirname) == name \in DOMAIN d /\ dirname \in DOMAIN d[name]

\* os.makedirs(os.path.dirname(destination), exist_ok=True)
MakeNameDir(d, name) ==
    IF name \in DOMAIN d THEN d
    ELSE [n \in DOMAIN d \cup {name} |-> IF n = name THEN <<>> ELSE d[n]]

PutDir(d, name, dirname, tree) ==
    [d EXCEPT ![name] =
        [v \in DOMAIN d[name] \cup {dirname} |-> IF v = dirname THEN tree ELSE d[name][v]]]

\* shutil.rmtree of R/modules/<name>/<dirname>
RemoveTree(d, name, dirname) ==
    [d EXCEPT ![name] = Restrict(d[name], DOMAIN d[name] \ {dirname})]

\* os.replace(temp_dir, destination)
Replace(d, name, from, to) == PutDir(RemoveTree(d, name, from), name, to, d[name][from])

\* Variant: the except clause re-raises without removing the staging directory.
CleanupStagingSkipped(d, name, tempDir) == d

\* The except clause of install: if os.path.isdir(temp_dir): shutil.rmtree(temp_dir)
CleanupStaging(d, name, tempDir) ==
    IF HasDir(d, name, tempDir) THEN RemoveTree(d, name, tempDir) ELSE d

\* if os.path.exists(temp_dir): shutil.rmtree(temp_dir)
RemoveStaleStaging(d, name, tempDir) ==
    IF HasDir(d, name, tempDir) THEN RemoveTree(d, name, tempDir) ELSE d

InstalledModule(name, version) ==
    [name |-> name, version |-> version, path |-> <<MODULES_DIRNAME, name, version>>]

Verdict(ok, message, missing, extra, changed) ==
    [ok |-> ok, message |-> message, missing |-> missing, extra |-> extra, changed |-> changed]

Passed == Verdict(TRUE, "", <<>>, <<>>, <<>>)

Refused(message) == Verdict(FALSE, message, <<>>, <<>>, <<>>)

\* expected_hashes of _verify_immutability: path -> sha256, from the manifest's files.
ExpectedHashes(entries) ==
    [path \in {entries[i].path : i \in DOMAIN entries} |->
        entries[CHOOSE i \in DOMAIN entries : entries[i].path = path].sha256]

\* actual_hashes of _verify_immutability: path -> sha256 of the walked files,
\* the root manifest excluded.
ActualHashes(tree, paths) ==
    LET Hashed(kept) ==
            [path \in {AsPosix(p) : p \in kept} |->
                Sha256File(tree.files[CHOOSE p \in kept : AsPosix(p) = path])]
    IN  Hashed({p \in Range(paths) : AsPosix(p) # IMMUTABILITY_MANIFEST_FILENAME})

\* _verify_immutability of the tree at R/modules/<name>/<version>
VerifyImmutability(tree, name, version) ==
    LET Details(missing, extra, changed) ==
            IF missing # <<>> \/ extra # <<>> \/ changed # <<>>
            THEN Verdict(FALSE, "Immutability check failed", missing, extra, changed)
            ELSE Passed
        Compared(expected, actual) ==
            Details(SortStrs(DOMAIN expected \ DOMAIN actual),
                    SortStrs(DOMAIN actual \ DOMAIN expected),
                    SortStrs({path \in DOMAIN expected \cap DOMAIN actual :
                                expected[path] # actual[path]}))
        Walked(manifest, walk) ==
            IF ~walk.ok THEN Refused("Symlinks are not allowed in registry installs")
            ELSE Compared(ExpectedHashes(manifest.files), ActualHashes(tree, walk.paths))
        Loaded(manifest) ==
            IF manifest.kind # "manifest" THEN Refused("Invalid immutability manifest")
            ELSE IF manifest.name # name \/ manifest.version # version
            THEN Refused("Immutability manifest identity mismatch")
            ELSE IF manifest.algorithm # "sha256"
            THEN Refused("Unsupported immutability hash algorithm")
            ELSE IF \E i, j \in DOMAIN manifest.files :
                        i < j /\ manifest.files[i].path = manifest.files[j].path
            THEN Refused("Invalid immutability manifest")
            ELSE Walked(manifest, IterFilesSorted(tree))
    IN  IF ManifestPath \notin DOMAIN tree.files
        THEN Refused("Immutability manifest missing")
        ELSE Loaded(tree.files[ManifestPath])

Answer(ok, message, entries, verdict) ==
    [ok |-> ok, message |-> message, entries |-> entries, verdict |-> verdict]

\* LocalRegistry.lookup
Lookup(d, name, version) ==
    LET Verified(verdict) ==
            IF ~verdict.ok THEN Answer(FALSE, verdict.message, <<>>, verdict)
            ELSE Answer(TRUE, "", <<InstalledModule(name, version)>>, verdict)
    IN  IF ~ValidateSegment(name) \/ ~ValidateSegment(version)
        THEN Answer(FALSE, "unsafe path segment", <<>>, Passed)
        ELSE IF ~HasDir(d, name, version)
        THEN Answer(FALSE, "Module not found", <<>>, Passed)
        ELSE Verified(VerifyImmutability(d[name][version], name, version))

\* Variant: list_by_name without _verify_immutability.
ListByNameUnverified(d, name) ==
    LET Listed(versions) ==
            IF \E i \in DOMAIN versions : ~ValidateSegment(versions[i])
            THEN Answer(FALSE, "unsafe path segment", <<>>, Refused("unsafe path segment"))
            ELSE Answer(TRUE, "", [i \in DOMAIN versions |-> InstalledModule(name, versions[i])],
                        Passed)
    IN  IF ~ValidateSegment(name) THEN Answer(FALSE, "unsafe path segment", <<>>, Passed)
        ELSE IF name \notin DOMAIN d THEN Answer(TRUE, "", <<>>, Passed)
        ELSE Listed(SortStrs(DOMAIN d[name]))

\* The first element of a sequence of results that is not ok; 0 when all are.
FirstFailure(results) ==
    IF \A i \in DOMAIN results : results[i].ok THEN 0
    ELSE CHOOSE i \in DOMAIN results :
            ~results[i].ok /\ \A j \in 1..(i - 1) : results[j].ok

\* LocalRegistry.list_by_name: the version directories in sorted order, each
\* validated and verified; the first that fails ends the call.
ListByName(d, name) ==
    LET Ended(versions, verdicts, first) ==
            IF first # 0 THEN Answer(FALSE, verdicts[first].message, <<>>, verdicts[first])
            ELSE Answer(TRUE, "", [i \in DOMAIN versions |-> InstalledModule(name, versions[i])],
                        Passed)
        Checked(versions, verdicts) == Ended(versions, verdicts, FirstFailure(verdicts))
        Listed(versions) ==
            Checked(versions,
                    [i \in DOMAIN versions |->
                        IF ~ValidateSegment(versions[i]) THEN Refused("unsafe path segment")
                        ELSE VerifyImmutability(d[name][versions[i]], name, versions[i])])
    IN  IF ~ValidateSegment(name) THEN Answer(FALSE, "unsafe path segment", <<>>, Passed)
        ELSE IF name \notin DOMAIN d THEN Answer(TRUE, "", <<>>, Passed)
        ELSE Listed(SortStrs(DOMAIN d[name]))

\* LocalRegistry.list_installed: list_by_name of every name directory, in sorted order.
ListInstalled(d) ==
    LET Ended(answers, first) ==
            IF first # 0 THEN answers[first]
            ELSE Answer(TRUE, "", Flatten([i \in DOMAIN answers |-> answers[i].entries]), Passed)
        Checked(answers) == Ended(answers, FirstFailure(answers))
        Listed(names) ==
            Checked([i \in DOMAIN names |->
                        IF ~ValidateSegment(names[i])
                        THEN Answer(FALSE, "unsafe path segment", <<>>, Passed)
                        ELSE ListByName(d, names[i])])
    IN  Listed(SortStrs(DOMAIN d))

\* Variant: has_version that never finds the version.
HasVersionNever(d, name, version) == FALSE

\* LocalRegistry.has_version
HasVersion(d, name, version) ==
    ValidateSegment(name) /\ ValidateSegment(version) /\ HasDir(d, name, version)

\* Variant: install without the destination check.
AlreadyInstalledNever(d, name, version) == FALSE

\* install: if os.path.exists(destination): raise DependencyError
AlreadyInstalled(d, name, version) == HasDir(d, name, version)

NoFault == [copy |-> 0, write |-> FALSE, replace |-> FALSE]

Installed(d, ok, message, entries) ==
    [disk |-> d, ok |-> ok, message |-> message, entries |-> entries]

\* LocalRegistry.install of the module directory `source`. fault makes one
\* filesystem call of the try block raise: the copy-th shutil.copy2, the
\* manifest write, or os.replace.
Install(d, source, fault) ==
    LET name == source.files[ConfigPath].name
        version == source.files[ConfigPath].version
        tempDir == source.files[ConfigPath].version \o TmpSuffix
        Ended(staged, raised) ==
            IF raised
            THEN Installed(CleanupStaging(staged, name, tempDir), FALSE,
                           "Failed to install module", <<>>)
            ELSE Installed(Replace(staged, name, tempDir, version), TRUE, "",
                           <<InstalledModule(name, version)>>)
        Written(prepared, copy, written) ==
            Ended(PutDir(prepared, name, tempDir, IF copy.ok THEN written.tree ELSE copy.tree),
                  ~copy.ok \/ ~written.ok \/ fault.replace)
        Copied(prepared, copy) ==
            Written(prepared, copy, WriteImmutabilityManifest(copy.tree, name, version, fault.write))
    IN  IF ~ValidateSegment(name) \/ ~ValidateSegment(version)
        THEN Installed(d, FALSE, "unsafe path segment", <<>>)
        ELSE IF AlreadyInstalled(d, name, version)
        THEN Installed(d, FALSE, "Module already installed", <<>>)
        ELSE Copied(RemoveStaleStaging(MakeNameDir(d, name), name, tempDir),
                    CopyTreeDeterministic(source, fault.copy))

(***************************************************************************)
(* Module directories handed to install                                    *)
(***************************************************************************)
TemplatePath == <<<<"t", "e", "m", "p", "l", "a", "t", "e", ".", "p", "r", "o", "m", "p", "t">>>>

NestedPath == <<<<"s", "u", "b">>, <<"x", ".", "t", "x", "t">>>>

LinkPath == <<<<"z", ".", "l", "n", "k">>>>

Shapes == {"plain", "nested", "linked"}

\* A module directory: promptpm.yaml and the template; "nested" adds a file in
\* a subdirectory and a stray file named like the immutability manifest,
\* "linked" adds a symbolic link.
SourceTree(name, version, dependencies, shape) ==
    LET base == (ConfigPath :> ModuleDocument(name, version, dependencies))
                @@ (TemplatePath :> DataFile(1))
    IN  IF shape = "nested"
        THEN Tree(base @@ (NestedPath :> DataFile(2)) @@ (ManifestPath :> DataFile(3)), {})
        ELSE IF shape = "linked" THEN Tree(base, {LinkPath})
        ELSE Tree(base, {})

RegistryNames == {<<"a">>, <<"b">>}

\* "1.0.0-rc.tmp" is a SemVer version, and the name of the staging directory of "1.0.0-rc".
RegistryVersions == {<<"1", ".", "0", ".", "0", "-", "r", "c">>, <<"1", ".", "0", ".", "0", "-", "r", "c", ".", "t", "m", "p">>}

\* Every shape of module "a" at both versions, and one more module name.
RegistrySources ==
    {SourceTree(<<"a">>, v, <<>>, s) : v \in RegistryVersions, s \in Shapes}
    \cup {SourceTree(<<"b">>, <<"1", ".", "0", ".", "0", "-", "r", "c">>, <<>>, "plain")}

Faults ==
    {NoFault,
     [copy |-> 1, write |-> FALSE, replace |-> FALSE],
     [copy |-> 2, write |-> FALSE, replace |-> FALSE],
     [copy |-> 0, write |-> TRUE, replace |-> FALSE],
     [copy |-> 0, write |-> FALSE, replace |-> TRUE]}

(***************************************************************************)
(* Registry calls as actions                                               *)
(***************************************************************************)
Call(call, source, name, version, fault, ok, error, message, entries, verdict, before, repeat) ==
    [call |-> call, source |-> source, name |-> name, version |-> version, fault |-> fault, ok |-> ok,
     error |-> error, message |-> message, entries |-> entries, verdict |-> verdict,
     before |-> before, repeat |-> repeat]

NoCall == Call("none", EmptyTree, <<>>, <<>>, NoFault, TRUE, "", "", <<>>, Passed, <<>>, FALSE)

ErrorOf(ok) == IF ok THEN "" ELSE "DependencyError"

\* registry.install(source)
DoInstall(source, fault) ==
    LET name == source.files[ConfigPath].name
        version == source.files[ConfigPath].version
    IN  \E result \in {Install(disk, source, fault)} :
        /\ disk' = result.disk
        /\ published' =
              IF result.ok
              THEN [id \in DOMAIN published \cup {<<name, version>>} |->
                      IF id = <<name, version>> THEN result.disk[name][version]
                      ELSE published[id]]
              ELSE published
        /\ op' = Call("install", source, name, version, fault, result.ok, ErrorOf(result.ok),
                      result.message, result.entries, Passed, disk,
                      op.call = "install" /\ op.ok /\ op.name = name /\ op.version = version)
        /\ UNCHANGED tampers

\* A lookup that makes the name directory of what it looks for (a variant of lookup).
DoLookupCreating(name, version) ==
    \E answer \in {Lookup(disk, name, version)} :
        /\ op' = Call("lookup", EmptyTree, name, version, NoFault, answer.ok, ErrorOf(answer.ok),
                      answer.message, answer.entries, answer.verdict, disk, FALSE)
        /\ disk' = MakeNameDir(disk, name)
        /\ UNCHANGED <<published, tampers>>

\* registry.lookup(name, version)
DoLookup(name, version) ==
    \E answer \in {Lookup(disk, name, version)} :
        /\ op' = Call("lookup", EmptyTree, name, version, NoFault, answer.ok, ErrorOf(answer.ok),
                      answer.message, answer.entries, answer.verdict, disk, FALSE)
        /\ UNCHANGED <<disk, published, tampers>>

\* registry.list_by_name(name)
DoListByName(name) ==
    \E answer \in {ListByName(disk, name)} :
        /\ op' = Call("list_by_name", EmptyTree, name, <<>>, NoFault, answer.ok, ErrorOf(answer.ok),
                      answer.message, answer.entries, answer.verdict, disk, FALSE)
        /\ UNCHANGED <<disk, published, tampers>>

\* registry.list_installed()
DoListInstalled ==
    \E answer \in {ListInstalled(disk)} :
        /\ op' = Call("list_installed", EmptyTree, <<>>, <<>>, NoFault, answer.ok, ErrorOf(answer.ok),
                      answer.message, answer.entries, answer.verdict, disk, FALSE)
        /\ UNCHANGED <<disk, published, tampers>>

\* registry.has_version(name, version): entries holds the module when the
\* answer is True and is empty when it is False.
DoHasVersion(name, version) ==
    /\ op' = IF ~ValidateSegment(name) \/ ~ValidateSegment(version)
             THEN Call("has_version", EmptyTree, name, version, NoFault, FALSE, "DependencyError",
                       "unsafe path segment", <<>>, Passed, disk, FALSE)
             ELSE Call("has_version", EmptyTree, name, version, NoFault, TRUE, "", "",
                       IF HasVersion(disk, name, version)
                       THEN <<InstalledModule(name, version)>> ELSE <<>>,
                       Passed, disk, FALSE)
    /\ UNCHANGED <<disk, published, tampers>>

IdleResolver ==
    /\ rootRaw = <<>>
    /\ status = "idle"
    /\ frames = <<>>
    /\ visiting = <<>>
    /\ visited = {}
    /\ resolved = <<>>
    /\ failure = [message |-> "", cycle |-> <<>>]

\* _select_installed_version was not called yet.
NoRequirement == [name |-> <<>>, version_range |-> <<>>]

NoSelection == [ok |-> FALSE, message |-> "", module |-> InstalledModule(<<>>, <<>>)]

IdleSelect ==
    /\ selInput = NoRequirement
    /\ selOutput = NoSelection

\* No function of semver.py was called yet.
NoSemverCall == [call |-> "none"]

IdleSemver ==
    /\ given = <<>>
    /\ semver = NoSemverCall

\* Neither the validator nor the test runner was called on a document yet.
NoDocument == [kind |-> "none"]

NotChecked == [call |-> "none", raised |-> "", message |-> "", value |-> <<>>, code |-> "", exit |-> -1]

IdleSchema ==
    /\ yamlDoc = NoDocument
    /\ checked = NotChecked

\* No command was run yet.
NoCommand ==
    [operation |-> "none", pc |-> "ready", quiet |-> FALSE, steps |-> <<>>, emitted |-> <<>>,
     exit |-> -1, before |-> <<>>, cwdBefore |-> [files |-> <<>>, links |-> {}]]

\* No install call is in progress and no command was run.
IdleProcesses ==
    /\ installers = <<>>
    /\ cwd = [files |-> <<>>, links |-> {}]
    /\ command = NoCommand

EmptyRegistry ==
    /\ disk = <<>>
    /\ published = <<>>
    /\ op = NoCall
    /\ tampers = 0

\* A registry used through its own operations only, with failing filesystem calls.
InitInstall == EmptyRegistry /\ IdleResolver /\ IdleSelect /\ IdleSchema /\ IdleSemver /\ IdleProcesses

InstallStep ==
    /\ \E source \in RegistrySources, fault \in Faults : DoInstall(source, fault)
    /\ UNCHANGED <<resolverVars, selectVars, schemaVars, semverVars, processVars>>

LookupStep ==
    /\ \E name \in RegistryNames, version \in RegistryVersions : DoLookup(name, version)
    /\ UNCHANGED <<resolverVars, selectVars, schemaVars, semverVars, processVars>>

ListByNameStep ==
    /\ \E name \in RegistryNames : DoListByName(name)
    /\ UNCHANGED <<resolverVars, selectVars, schemaVars, semverVars, processVars>>

ListInstalledStep ==
    /\ DoListInstalled
    /\ UNCHANGED <<resolverVars, selectVars, schemaVars, semverVars, processVars>>

NextInstall ==
    \/ InstallStep
    \/ LookupStep
    \/ ListByNameStep
    \/ ListInstalledStep

SpecInstall == InitInstall /\ [][NextInstall]_vars
(***************************************************************************)
(* Edits of the registry directory made behind the registry's back         *)
(***************************************************************************)
MaxTampers == 2

ExtraPath == <<<<"e", "x", "t", "r", "a", ".", "t", "x", "t">>>>

TamperedContent == DataFile(9)

TamperSources ==
    {SourceTree(<<"a">>, v, <<>>, "plain") : v \in RegistryVersions}
    \cup {SourceTree(<<"b">>, <<"1", ".", "0", ".", "0", "-", "r", "c">>, <<>>, "plain")}

Tampered(name, version, tree) ==
    /\ tampers < MaxTampers
    /\ HasDir(disk, name, version)
    /\ tree # disk[name][version]
    /\ disk' = PutDir(disk, name, version, tree)
    /\ tampers' = tampers + 1
    /\ op' = NoCall
    /\ UNCHANGED published

\* A file under an installed module is overwritten or added.
TamperWrite(name, version, path) ==
    /\ HasDir(disk, name, version)
    /\ Tampered(name, version, WithFile(disk[name][version], path, TamperedContent))

\* A file under an installed module, the manifest included, is deleted.
TamperRemove(name, version, path) ==
    /\ HasDir(disk, name, version)
    /\ path \in DOMAIN disk[name][version].files
    /\ Tampered(name, version, WithoutFile(disk[name][version], path))

\* A symbolic link is created under an installed module.
TamperLink(name, version, path) ==
    /\ HasDir(disk, name, version)
    /\ path \notin DOMAIN disk[name][version].files
    /\ Tampered(name, version,
                Tree(disk[name][version].files, disk[name][version].links \cup {path}))

\* The manifest is rewritten to list the files as they are now.
TamperResign(name, version) ==
    /\ HasDir(disk, name, version)
    /\ Tampered(name, version,
                WithFile(disk[name][version], ManifestPath,
                         ManifestPayload(name, version, "sha256",
                                         ManifestEntries(disk[name][version]))))

InitTamper == EmptyRegistry /\ IdleResolver /\ IdleSelect /\ IdleSchema /\ IdleSemver /\ IdleProcesses

CleanInstallStep ==
    /\ \E source \in TamperSources : DoInstall(source, NoFault)
    /\ UNCHANGED <<resolverVars, selectVars, schemaVars, semverVars, processVars>>

TamperWriteStep ==
    /\ \E name \in RegistryNames, version \in RegistryVersions,
          path \in {TemplatePath, ExtraPath, ManifestPath} :
            TamperWrite(name, version, path)
    /\ UNCHANGED <<resolverVars, selectVars, schemaVars, semverVars, processVars>>

TamperRemoveStep ==
    /\ \E name \in RegistryNames, version \in RegistryVersions,
          path \in {TemplatePath, ManifestPath} :
            TamperRemove(name, version, path)
    /\ UNCHANGED <<resolverVars, selectVars, schemaVars, semverVars, processVars>>

TamperLinkStep ==
    /\ \E name \in RegistryNames, version \in RegistryVersions : TamperLink(name, version, LinkPath)
    /\ UNCHANGED <<resolverVars, selectVars, schemaVars, semverVars, processVars>>

TamperResignStep ==
    /\ \E name \in RegistryNames, version \in RegistryVersions : TamperResign(name, version)
    /\ UNCHANGED <<resolverVars, selectVars, schemaVars, semverVars, processVars>>

NextTamper ==
    \/ CleanInstallStep
    \/ TamperWriteStep
    \/ TamperRemoveStep
    \/ TamperLinkStep
    \/ TamperResignStep
    \/ LookupStep
    \/ ListByNameStep
    \/ ListInstalledStep

SpecTamper == InitTamper /\ [][NextTamper]_vars

(***************************************************************************)
(* Properties of the registry                                              *)
(***************************************************************************)
\* The regular files of a tree other than its root manifest.
Content(tree) == Restrict(tree.files, DOMAIN tree.files \ {ManifestPath})

\* The file set of a module directory is exactly what its manifest lists:
\* same relative paths, same digests, nothing extra, nothing missing.
FilesMatchManifest(tree, name, version) ==
    /\ tree.links = {}
    /\ ManifestPath \in DOMAIN tree.files
    /\ LET manifest == tree.files[ManifestPath]
           listed == {<<manifest.files[i].path, manifest.files[i].sha256>> : i \in DOMAIN manifest.files}
       IN  /\ manifest.kind = "manifest"
           /\ manifest.name = name
           /\ manifest.version = version
           /\ manifest.algorithm = "sha256"
           /\ Cardinality({manifest.files[i].path : i \in DOMAIN manifest.files}) = Len(manifest.files)
           /\ listed = {<<AsPosix(p), [sha256of |-> tree.files[p]]>> : p \in DOMAIN Content(tree)}

Identity == <<op.name, op.version>>

DestinationBefore == HasDir(op.before, op.name, op.version)

\* C5: of two consecutive installs of one (name, version) the second raises
\* DependencyError "already installed" and leaves the registry directory
\* exactly as the first left it; an install into a free destination with no
\* failing filesystem call and no symbolic link in the source succeeds.
C5_SecondInstallRejected ==
    op.call = "install" =>
        /\ (op.repeat \/ DestinationBefore) =>
              /\ ~op.ok
              /\ op.error = "DependencyError"
              /\ op.message = "Module already installed"
              /\ disk = op.before
        /\ (~DestinationBefore /\ op.fault = NoFault /\ op.source.links = {}) =>
              /\ op.ok
              /\ HasDir(disk, op.name, op.version)

C5_Witness == op.call = "install" /\ op.repeat /\ ~op.ok /\ disk = op.before

\* C6: an install that fails after staging began (a copy error, a symbolic
\* link in the source, a manifest write error, a rename error) raises
\* DependencyError, leaves no staging directory V.tmp, and leaves nothing at
\* V unless V was there before the call.
C6_FailedInstallLeavesNothing ==
    op.call = "install" =>
        /\ (~DestinationBefore /\ (op.fault # NoFault \/ op.source.links # {})) =>
              /\ ~op.ok
              /\ op.message = "Failed to install module"
        /\ (~op.ok /\ op.message = "Failed to install module") =>
              /\ op.error = "DependencyError"
              /\ ~HasDir(disk, op.name, op.version \o TmpSuffix)
              /\ HasDir(disk, op.name, op.version) => DestinationBefore

C6_Witness ==
    /\ op.call = "install"
    /\ ~op.ok
    /\ op.fault.copy = 2
    /\ op.message = "Failed to install module"
    /\ ~HasDir(disk, op.name, op.version \o TmpSuffix)

\* C7: in a registry changed by install only, every module directory holds
\* exactly the files its manifest lists (the manifest itself excluded), and
\* lookup of an identity right after its successful install succeeds with
\* the path install returned.
C7_InstalledMatchesManifest ==
    /\ \A name \in DOMAIN disk : \A version \in DOMAIN disk[name] :
          FilesMatchManifest(disk[name][version], name, version)
    /\ (op.call = "install" /\ op.ok) =>
          /\ Lookup(disk, op.name, op.version).ok
          /\ Lookup(disk, op.name, op.version).entries = op.entries
          /\ op.entries[1].path = <<MODULES_DIRNAME, op.name, op.version>>
    /\ (op.call = "lookup" /\ HasDir(disk, op.name, op.version)) =>
          /\ op.ok
          /\ op.entries = <<InstalledModule(op.name, op.version)>>

C7_Witness ==
    /\ op.call = "lookup"
    /\ op.ok
    /\ NestedPath \in DOMAIN disk[op.name][op.version].files

\* C10: once install of (N, V) has succeeded, no later install call, of any
\* identity, successful or not, modifies, replaces or removes R/modules/N/V.
C10_PublishedImmutable ==
    \A id \in DOMAIN published :
        /\ HasDir(disk, id[1], id[2])
        /\ disk[id[1]][id[2]] = published[id]

(***************************************************************************)
(* Properties of immutability verification                                 *)
(***************************************************************************)
\* The module directories that were installed and are still there.
Standing == {id \in DOMAIN published : HasDir(disk, id[1], id[2])}

Now(id) == disk[id[1]][id[2]]

PosixPaths(S) == {AsPosix(p) : p \in S}

\* C8 as stated: verification of an installed module succeeds exactly when no
\* file under it was modified, added or removed since install, and otherwise
\* fails with "Immutability check failed" or "Immutability manifest missing".
C8_VerifyIffUntouched ==
    \A id \in Standing :
        LET verdict == VerifyImmutability(Now(id), id[1], id[2])
        IN  /\ verdict.ok <=> Now(id) = published[id]
            /\ ~verdict.ok =>
                  verdict.message \in {"Immutability check failed", "Immutability manifest missing"}

\* C8, amended: while the manifest is the file install wrote and no symbolic
\* link was added, verification succeeds exactly when no other file was
\* modified, added or removed since install; when it fails the message is
\* "Immutability check failed" and names exactly the removed, added and
\* modified paths. With the manifest removed the message is "Immutability
\* manifest missing". lookup reports what verification found.
C8_VerifyIffContentUntouched ==
    /\ \A id \in Standing :
          LET verdict == VerifyImmutability(Now(id), id[1], id[2])
              was == Content(published[id])
              is == Content(Now(id))
          IN  /\ ManifestPath \notin DOMAIN Now(id).files =>
                    /\ ~verdict.ok
                    /\ verdict.message = "Immutability manifest missing"
              /\ (/\ ManifestPath \in DOMAIN Now(id).files
                  /\ Now(id).files[ManifestPath] = published[id].files[ManifestPath]
                  /\ Now(id).links = {}) =>
                    /\ verdict.ok <=> is = was
                    /\ ~verdict.ok =>
                          /\ verdict.message = "Immutability check failed"
                          /\ Range(verdict.missing) = PosixPaths(DOMAIN was \ DOMAIN is)
                          /\ Range(verdict.extra) = PosixPaths(DOMAIN is \ DOMAIN was)
                          /\ Range(verdict.changed) =
                                PosixPaths({p \in DOMAIN was \cap DOMAIN is : was[p] # is[p]})
    /\ (op.call = "lookup" /\ Identity \in Standing) =>
          LET verdict == VerifyImmutability(Now(Identity), op.name, op.version)
          IN  /\ op.ok = verdict.ok
              /\ op.verdict = verdict
              /\ ~op.ok => op.error = "DependencyError" /\ op.message = verdict.message

C8_Witness ==
    /\ op.call = "lookup"
    /\ ~op.ok
    /\ op.message = "Immutability check failed"
    /\ op.verdict.extra # <<>>
    /\ op.verdict.changed # <<>>

\* The version directories a read call enumerates.
Enumerated ==
    IF op.call = "lookup" THEN {Identity} \cap Standing
    ELSE IF op.call = "list_by_name"
    THEN {<<op.name, v>> : v \in (IF op.name \in DOMAIN disk THEN DOMAIN disk[op.name] ELSE {})}
    ELSE IF op.call = "list_installed"
    THEN UNION {{<<n, v>> : v \in DOMAIN disk[n]} : n \in DOMAIN disk}
    ELSE {}

\* C9: lookup, list_by_name and list_installed return only entries whose
\* directory matches its manifest, and when any directory they enumerate does
\* not, the whole call raises DependencyError and returns no entry.
C9_ReadsReturnVerifiedOnly ==
    op.call \in {"lookup", "list_by_name", "list_installed"} =>
        /\ \A i \in DOMAIN op.entries :
              /\ HasDir(disk, op.entries[i].name, op.entries[i].version)
              /\ FilesMatchManifest(disk[op.entries[i].name][op.entries[i].version],
                                    op.entries[i].name, op.entries[i].version)
        /\ (\E id \in Enumerated : ~FilesMatchManifest(Now(id), id[1], id[2])) =>
              /\ ~op.ok
              /\ op.error = "DependencyError"
              /\ op.entries = <<>>
        /\ (\A id \in Enumerated : FilesMatchManifest(Now(id), id[1], id[2])) =>
              (op.call # "lookup" => op.ok /\ Len(op.entries) = Cardinality(Enumerated))

C9_Witness ==
    /\ op.call = "list_by_name"
    /\ ~op.ok
    /\ \E id \in Enumerated : FilesMatchManifest(Now(id), id[1], id[2])
    /\ \E id \in Enumerated : ~FilesMatchManifest(Now(id), id[1], id[2])

(***************************************************************************)
(* resolver.py                                                             *)
(***************************************************************************)
DependencySpec(name, version_range) == [name |-> name, version_range |-> version_range]

ResolvedDependency(name, version, path) == [name |-> name, version |-> version, path |-> path]

\* One entry of a dependencies list as declared in promptpm.yaml.
Declared(name, version) == [name |-> name, version |-> version]

\* The sort key (entry.name, entry.version_range), compared as tuples of str.
KeyLess(l, r) ==
    \/ StrLess(l.name, r.name)
    \/ l.name = r.name /\ StrLess(l.version_range, r.version_range)

\* list.sort is stable: an entry goes after the entries that are not greater.
InsertByKey(sorted, e) ==
    LET At(pos) == SubSeq(sorted, 1, pos) \o <<e>> \o SubSeq(sorted, pos + 1, Len(sorted))
    IN  At(Cardinality({i \in DOMAIN sorted : ~KeyLess(e, sorted[i])}))

RECURSIVE SortByKey(_)
SortByKey(entries) ==
    IF entries = <<>> THEN <<>>
    ELSE InsertByKey(SortByKey(SubSeq(entries, 1, Len(entries) - 1)), entries[Len(entries)])

Parsed(ok, deps) == [ok |-> ok, deps |-> deps]

\* Variant: _parse_dependencies without parsed.sort.
ParseDependenciesUnsorted(raw) ==
    IF \E i \in DOMAIN raw : raw[i].name = <<>> \/ Strip(raw[i].version) = <<>>
    THEN Parsed(FALSE, <<>>)
    ELSE Parsed(TRUE, [i \in DOMAIN raw |-> DependencySpec(raw[i].name, Strip(raw[i].version))])

\* _parse_dependencies: ok = FALSE when it raises DependencyError.
ParseDependencies(raw) ==
    IF \E i \in DOMAIN raw : raw[i].name = <<>> \/ Strip(raw[i].version) = <<>>
    THEN Parsed(FALSE, <<>>)
    ELSE Parsed(TRUE, SortByKey([i \in DOMAIN raw |->
                                    DependencySpec(raw[i].name, Strip(raw[i].version))]))

Candidate(semantic, module) == [semantic |-> semantic, module |-> module]

\* _compare_candidate_version
CompareCandidateVersion(left, right) ==
    LET Decided(semantic_cmp) ==
            IF semantic_cmp # 0 THEN semantic_cmp
            ELSE IF StrLess(left.module.version, right.module.version) THEN -1
            ELSE IF StrLess(right.module.version, left.module.version) THEN 1
            ELSE 0
    IN  Decided(CompareVersions(left.semantic, right.semantic))

InsertCandidate(sorted, c) ==
    LET At(pos) == SubSeq(sorted, 1, pos) \o <<c>> \o SubSeq(sorted, pos + 1, Len(sorted))
    IN  At(Cardinality({i \in DOMAIN sorted : CompareCandidateVersion(c, sorted[i]) >= 0}))

\* matching.sort(key=cmp_to_key(_compare_candidate_version))
RECURSIVE SortCandidates(_)
SortCandidates(matching) ==
    IF matching = <<>> THEN <<>>
    ELSE InsertCandidate(SortCandidates(SubSeq(matching, 1, Len(matching) - 1)),
                         matching[Len(matching)])

NoModule == InstalledModule(<<>>, <<>>)

Selection(ok, message, module) == [ok |-> ok, message |-> message, module |-> module]

\* The elements of s at the indices in keep, in order.
Kept(s, keep) ==
    LET upto[i \in 0..Len(s)] ==
            IF i = 0 THEN <<>>
            ELSE IF i \in keep THEN Append(upto[i - 1], s[i])
            ELSE upto[i - 1]
    IN  upto[Len(s)]

\* DependencyResolver._select_installed_version: ok = FALSE when it raises
\* DependencyError (its own, or the one list_by_name raised).
SelectInstalledVersion(d, name, version_range) ==
    LET Chosen(matching) ==
            IF matching = <<>>
            THEN Selection(FALSE, "No installed versions satisfy dependency", NoModule)
            ELSE Selection(TRUE, "", SortCandidates(matching)[Len(matching)].module)
        Matched(candidates, versions, satisfied) ==
            IF \E i \in DOMAIN candidates : ~versions[i].ok \/ ~satisfied[i].ok
            THEN Selection(FALSE, "Invalid semantic version while resolving", NoModule)
            ELSE Chosen(Kept([i \in DOMAIN candidates |-> Candidate(versions[i].v, candidates[i])],
                             {i \in DOMAIN candidates : satisfied[i].value}))
        Versions(candidates, versions) ==
            Matched(candidates, versions,
                    [i \in DOMAIN candidates |->
                        SatisfiesVersionRange(versions[i].v, version_range)])
        Listed(listing) ==
            IF ~listing.ok THEN Selection(FALSE, listing.message, NoModule)
            ELSE IF listing.entries = <<>> THEN Selection(FALSE, "Dependency not found", NoModule)
            ELSE Versions(listing.entries,
                          [i \in DOMAIN listing.entries |->
                              ParseVersion(listing.entries[i].version)])
    IN  Listed(ListByName(d, name))

\* node_id = f"{module.name}@{module.version}"
NodeId(module) == module.name \o <<"@">> \o module.version

\* load_prompt_module(module.path).dependencies
LoadedDependencies(d, module) == d[module.name][module.version].files[ConfigPath].dependencies

(***************************************************************************)
(* _select_installed_version over a registry filled by install             *)
(***************************************************************************)
SelectName == <<"d", "e", "p">>

\* "1.0" is a safe path segment and not a SemVer version; the two builds of
\* 1.2.0 are equal in precedence.
SelectVersions == {<<"1", ".", "0", ".", "0">>, <<"1", ".", "2", ".", "0", "+", "b", "9">>, <<"1", ".", "2", ".", "0", "+", "b", "1", "0">>, <<"2", ".", "0", ".", "0", "-", "r", "c">>, <<"1", ".", "0">>}

SelectRanges == {<<"^", "1", ".", "0", ".", "0">>, <<"*">>, <<">", "=", "1", ".", "2", ".", "0", " ", "<", "2", ".", "0", ".", "0", " ", "|", "|", " ", "2", ".", "0", ".", "0", "-", "r", "c">>, <<"~", "1", ".", "0", ".", "0">>, <<">", "=">>}

SelectSources == {SourceTree(SelectName, v, <<>>, "plain") : v \in SelectVersions}

InitSelect == EmptyRegistry /\ IdleResolver /\ IdleSelect /\ IdleSchema /\ IdleSemver /\ IdleProcesses

\* An install between two selections; the earlier selection is forgotten.
SelectInstallStep ==
    /\ \E source \in SelectSources : DoInstall(source, NoFault)
    /\ selInput' = NoRequirement
    /\ selOutput' = NoSelection
    /\ UNCHANGED <<resolverVars, processVars, semverVars, schemaVars>>

\* resolver._select_installed_version(name, version_range, parent=...)
SelectStep ==
    /\ \E version_range \in SelectRanges :
          /\ selInput' = DependencySpec(SelectName, version_range)
          /\ \E chosen \in {SelectInstalledVersion(disk, SelectName, version_range)} :
                selOutput' = chosen
    /\ UNCHANGED <<registryVars, resolverVars, processVars, semverVars, schemaVars>>

NextSelect ==
    \/ SelectInstallStep
    \/ SelectStep

SpecSelect == InitSelect /\ [][NextSelect]_vars

(***************************************************************************)
(* Properties of candidate selection                                       *)
(***************************************************************************)
InstalledVersions(d, name) == IF name \in DOMAIN d THEN DOMAIN d[name] ELSE {}

\* The installed versions of a name that satisfy a range expression.
Satisfying(d, name, version_range) ==
    {v \in InstalledVersions(d, name) :
        /\ ParseVersion(v).ok
        /\ ParseVersionRange(version_range).ok
        /\ RangeMatches(ParseVersionRange(version_range), ParseVersion(v).v)}

\* w does not come after v: lower precedence, or equal precedence and a raw
\* string that is not greater.
NotAfter(w, v) ==
    LET cmp == CompareVersions(ParseVersion(w).v, ParseVersion(v).v)
    IN  cmp < 0 \/ (cmp = 0 /\ (w = v \/ StrLess(w, v)))

SelectedIsMaximal ==
    LET satisfying == Satisfying(disk, selInput.name, selInput.version_range)
    IN  /\ selOutput.ok
        /\ selOutput.module.version \in satisfying
        /\ selOutput.module = InstalledModule(selInput.name, selOutput.module.version)
        /\ \A w \in satisfying : NotAfter(w, selOutput.module.version)

\* C3: for a requirement that at least one installed version satisfies,
\* _select_installed_version returns the satisfying version that is maximal
\* by SemVer precedence, the lexicographically greatest raw string among
\* equals; it never returns a version that does not satisfy the range.
C3_SelectsMaximalSatisfying ==
    selInput.name # <<>> =>
        /\ Satisfying(disk, selInput.name, selInput.version_range) # {} => SelectedIsMaximal
        /\ selOutput.ok => SelectedIsMaximal

\* The same, for a name whose installed versions all parse as SemVer.
SelectsMaximalWhenAllParse ==
    (selInput.name # <<>> /\ \A v \in InstalledVersions(disk, selInput.name) : ParseVersion(v).ok) =>
        /\ Satisfying(disk, selInput.name, selInput.version_range) # {} => SelectedIsMaximal
        /\ selOutput.ok => SelectedIsMaximal

\* An unparseable sibling makes the selection raise.
SelectRaisesOnlyForSibling ==
    (selInput.name # <<>> /\ Satisfying(disk, selInput.name, selInput.version_range) # {}
       /\ ~selOutput.ok) =>
        /\ selOutput.message = "Invalid semantic version while resolving"
        /\ \E v \in InstalledVersions(disk, selInput.name) : ~ParseVersion(v).ok

TieBroken ==
    /\ selOutput.ok
    /\ selOutput.module.version = <<"1", ".", "2", ".", "0", "+", "b", "9">>
    /\ <<"1", ".", "2", ".", "0", "+", "b", "1", "0">> \in InstalledVersions(disk, SelectName)

(***************************************************************************)
(* resolve_for_module, one step of its loops at a time                     *)
(***************************************************************************)
\* One activation: resolve_for_module itself (module = NoModule) or a
\* _visit, with its sorted dependencies and the index its loop is at.
Frame(module, deps, next) == [module |-> module, deps |-> deps, next |-> next]

Failure(message, cycle) == [message |-> message, cycle |-> cycle]

NoFailure == Failure("", <<>>)

CycleSeparator == <<" ", "-", ">", " ">>

\* Variant: the check `node_id in visiting` never holds.
OnPathNever(path, node_id) == FALSE

\* _visit: if node_id in visiting
OnPath(path, node_id) == node_id \in Range(path)

\* Variant: the record is put in front of the list.
EmitFirst(list, module) ==
    <<ResolvedDependency(module.name, module.version, module.path)>> \o list

\* _visit: resolved.append(ResolvedDependency(...))
Emit(list, module) ==
    Append(list, ResolvedDependency(module.name, module.version, module.path))

Top == frames[Len(frames)]

Front(s) == SubSeq(s, 1, Len(s) - 1)

Advance(fs) == [fs EXCEPT ![Len(fs)].next = @ + 1]

Raise(message, cycle) ==
    /\ status' = "raising"
    /\ failure' = Failure(message, cycle)

\* resolve_for_module up to its loop.
Begin ==
    /\ status = "idle"
    /\ \E parsed \in {ParseDependencies(rootRaw)} :
          IF parsed.ok
          THEN /\ status' = "running"
               /\ frames' = <<Frame(NoModule, parsed.deps, 1)>>
               /\ UNCHANGED failure
          ELSE /\ status' = "error"
               /\ failure' = Failure("dependency entry is invalid", <<>>)
               /\ UNCHANGED frames
    /\ UNCHANGED <<rootRaw, visiting, visited, resolved>>
    /\ UNCHANGED <<registryVars, selectVars, schemaVars, semverVars, processVars>>

\* The loop of the running activation has a dependency left.
Iterating == status = "running" /\ Top.next <= Len(Top.deps)

\* installed = self._select_installed_version(dependency.name, dependency.version_range, ...)
Selected ==
    SelectInstalledVersion(disk, Top.deps[Top.next].name, Top.deps[Top.next].version_range)

\* Variant: a name with no installed version is passed over.
SelectFailsUnlessMissing ==
    /\ Iterating
    /\ \E chosen \in {Selected} :
          /\ ~chosen.ok
          /\ IF chosen.message = "Dependency not found"
             THEN /\ frames' = Advance(frames)
                  /\ UNCHANGED <<status, failure>>
             ELSE /\ Raise(chosen.message, <<>>)
                  /\ UNCHANGED frames
    /\ UNCHANGED <<rootRaw, visiting, visited, resolved>>
    /\ UNCHANGED <<registryVars, selectVars, schemaVars, semverVars, processVars>>

\* One iteration of `for dependency in dependencies`: _select_installed_version raises.
SelectFails ==
    /\ Iterating
    /\ \E chosen \in {Selected} :
          /\ ~chosen.ok
          /\ Raise(chosen.message, <<>>)
    /\ UNCHANGED <<rootRaw, frames, visiting, visited, resolved>>
    /\ UNCHANGED <<registryVars, selectVars, schemaVars, semverVars, processVars>>

\* One iteration: _visit of a node whose subtree was emitted returns at once.
VisitVisited ==
    /\ Iterating
    /\ \E chosen \in {Selected} :
          /\ chosen.ok
          /\ NodeId(chosen.module) \in visited
    /\ frames' = Advance(frames)
    /\ UNCHANGED <<rootRaw, status, visiting, visited, resolved, failure>>
    /\ UNCHANGED <<registryVars, selectVars, schemaVars, semverVars, processVars>>

\* One iteration: _visit of a node on the current path raises.
VisitCycle ==
    /\ Iterating
    /\ \E chosen \in {Selected} :
          /\ chosen.ok
          /\ NodeId(chosen.module) \notin visited
          /\ OnPath(visiting, NodeId(chosen.module))
          /\ Raise("Cyclic dependency detected",
                   Join(Append(visiting, NodeId(chosen.module)), CycleSeparator))
    /\ UNCHANGED <<rootRaw, frames, visiting, visited, resolved>>
    /\ UNCHANGED <<registryVars, selectVars, schemaVars, semverVars, processVars>>

\* One iteration: _visit of a new node puts it on the path and loads its
\* dependencies.
VisitEnter ==
    /\ Iterating
    /\ \E chosen \in {Selected} :
          /\ chosen.ok
          /\ NodeId(chosen.module) \notin visited
          /\ ~OnPath(visiting, NodeId(chosen.module))
          /\ \E parsed \in {ParseDependencies(LoadedDependencies(disk, chosen.module))} :
                IF parsed.ok
                THEN /\ visiting' = Append(visiting, NodeId(chosen.module))
                     /\ frames' = Append(frames, Frame(chosen.module, parsed.deps, 1))
                     /\ UNCHANGED <<status, failure>>
                ELSE /\ Raise("dependency entry is invalid", <<>>)
                     /\ UNCHANGED <<frames, visiting>>
    /\ UNCHANGED <<rootRaw, visited, resolved>>
    /\ UNCHANGED <<registryVars, selectVars, schemaVars, semverVars, processVars>>

\* Variant: _visit ends without visited.add(node_id).
VisitReturnUnmarked ==
    /\ status = "running"
    /\ Len(frames) > 1
    /\ Top.next > Len(Top.deps)
    /\ visiting' = Front(visiting)
    /\ resolved' = Emit(resolved, Top.module)
    /\ frames' = Advance(Front(frames))
    /\ UNCHANGED <<rootRaw, status, visited, failure>>
    /\ UNCHANGED <<registryVars, selectVars, schemaVars, semverVars, processVars>>

\* The end of _visit: finally visiting.pop(), visited.add, resolved.append.
VisitReturn ==
    /\ status = "running"
    /\ Len(frames) > 1
    /\ Top.next > Len(Top.deps)
    /\ visiting' = Front(visiting)
    /\ visited' = visited \cup {NodeId(Top.module)}
    /\ resolved' = Emit(resolved, Top.module)
    /\ frames' = Advance(Front(frames))
    /\ UNCHANGED <<rootRaw, status, failure>>
    /\ UNCHANGED <<registryVars, selectVars, schemaVars, semverVars, processVars>>

\* return tuple(resolved)
Return ==
    /\ status = "running"
    /\ Len(frames) = 1
    /\ Top.next > Len(Top.deps)
    /\ status' = "done"
    /\ frames' = <<>>
    /\ UNCHANGED <<rootRaw, visiting, visited, resolved, failure>>
    /\ UNCHANGED <<registryVars, selectVars, schemaVars, semverVars, processVars>>

\* Variant: _visit has no finally clause, the path is left as it was when
\* the error was raised.
UnwindKeepingPath ==
    /\ status = "raising"
    /\ IF Len(frames) > 1
       THEN /\ frames' = Front(frames)
            /\ UNCHANGED status
       ELSE /\ frames' = <<>>
            /\ status' = "error"
    /\ UNCHANGED <<rootRaw, visiting, visited, resolved, failure>>
    /\ UNCHANGED <<registryVars, selectVars, schemaVars, semverVars, processVars>>

\* The exception leaves one activation: a _visit pops the path in its
\* finally clause, resolve_for_module lets the error out.
Unwind ==
    /\ status = "raising"
    /\ IF Len(frames) > 1
       THEN /\ frames' = Front(frames)
            /\ visiting' = Front(visiting)
            /\ UNCHANGED status
       ELSE /\ frames' = <<>>
            /\ status' = "error"
            /\ UNCHANGED visiting
    /\ UNCHANGED <<rootRaw, visited, resolved, failure>>
    /\ UNCHANGED <<registryVars, selectVars, schemaVars, semverVars, processVars>>

(***************************************************************************)
(* Registries and root modules handed to the resolver                      *)
(***************************************************************************)
MaxDeps == 2

MaxEdges == 3

\* "e" is not installed, no installed "a" satisfies ^3.0.0, and "d" has a
\* version directory that is not SemVer; " *" is stripped by
\* _parse_dependencies.
DeclaredPool ==
    {Declared(<<"a">>, <<"^", "1", ".", "0", ".", "0">>), Declared(<<"a">>, <<"*">>),
     Declared(<<"a">>, <<"^", "3", ".", "0", ".", "0">>), Declared(<<"b">>, <<" ", "*">>),
     Declared(<<"c">>, <<"*">>), Declared(<<"d">>, <<"*">>), Declared(<<"e">>, <<"*">>)}

\* The dependencies lists: up to MaxDeps distinct entries in any declared order.
DeclaredLists ==
    {l \in UNION {[1..n -> DeclaredPool] : n \in 0..MaxDeps} :
        \A i, j \in DOMAIN l : i # j => l[i] # l[j]}

ListsUpTo(n) == {l \in DeclaredLists : Len(l) <= n}

RECURSIVE InstallAll(_, _)
InstallAll(d, sources) ==
    IF sources = <<>> THEN d
    ELSE InstallAll(Install(d, sources[1], NoFault).disk, Tail(sources))

PublishedOf(d) ==
    [id \in UNION {{<<n, v>> : v \in DOMAIN d[n]} : n \in DOMAIN d} |-> d[id[1]][id[2]]]

\* a@1.0.0, a@2.0.0 and b@1.0.0 installed with the given dependencies lists,
\* c@1.0.0, d@1.0.0 and d@1.0 with none.
ResolveRegistry(a1, a2, b) ==
    InstallAll(<<>>, <<SourceTree(<<"a">>, <<"1", ".", "0", ".", "0">>, a1, "plain"),
                       SourceTree(<<"a">>, <<"2", ".", "0", ".", "0">>, a2, "plain"),
                       SourceTree(<<"b">>, <<"1", ".", "0", ".", "0">>, b, "plain"),
                       SourceTree(<<"c">>, <<"1", ".", "0", ".", "0">>, <<>>, "plain"),
                       SourceTree(<<"d">>, <<"1", ".", "0", ".", "0">>, <<>>, "plain"),
                       SourceTree(<<"d">>, <<"1", ".", "0">>, <<>>, "plain")>>)

InitResolve ==
    /\ \E root \in ListsUpTo(MaxEdges) :
       \E a1 \in ListsUpTo(MaxEdges - Len(root)) :
       \E a2 \in ListsUpTo(MaxEdges - Len(root) - Len(a1)) :
       \E b \in ListsUpTo(MaxEdges - Len(root) - Len(a1) - Len(a2)) :
          /\ rootRaw = root
          /\ \E registry \in {ResolveRegistry(a1, a2, b)} :
                /\ disk = registry
                /\ published = PublishedOf(registry)
    /\ op = NoCall
    /\ tampers = 0
    /\ status = "idle"
    /\ frames = <<>>
    /\ visiting = <<>>
    /\ visited = {}
    /\ resolved = <<>>
    /\ failure = NoFailure
    /\ IdleSelect /\ IdleSchema /\ IdleSemver
    /\ IdleProcesses

NextResolve ==
    \/ Begin
    \/ SelectFails
    \/ VisitVisited
    \/ VisitCycle
    \/ VisitEnter
    \/ VisitReturn
    \/ Return
    \/ Unwind

SpecResolve == InitResolve /\ [][NextResolve]_vars

(***************************************************************************)
(* The dependency graph the registry and the root module define            *)
(***************************************************************************)
\* The dependencies list a module declares; the root's for NoModule.
DeclaredOf(module) ==
    IF module = NoModule THEN rootRaw ELSE LoadedDependencies(disk, module)

\* Its requirements as a set: the declared order plays no part.
RequirementsOf(module) ==
    {DependencySpec(entry.name, Strip(entry.version)) : entry \in Range(DeclaredOf(module))}

Selectable(req) == Satisfying(disk, req.name, req.version_range) # {}

\* The installed module a requirement stands for: the satisfying version
\* that no other satisfying version comes after.
Best(req) ==
    InstalledModule(req.name,
        CHOOSE v \in Satisfying(disk, req.name, req.version_range) :
            \A w \in Satisfying(disk, req.name, req.version_range) : NotAfter(w, v))

Children(module) == {Best(req) : req \in {q \in RequirementsOf(module) : Selectable(q)}}

RECURSIVE Closure(_)
Closure(modules) ==
    LET Grown(more) == IF more \subseteq modules THEN modules ELSE Closure(modules \cup more)
    IN  Grown(UNION {Children(m) : m \in modules})

\* The selected modules reachable from the root.
Reached == Closure(Children(NoModule))

Cyclic == \E m \in Reached : m \in Closure(Children(m))

\* _select_installed_version answers every requirement of the root and of
\* the reachable modules.
AllSelected ==
    \A m \in Reached \cup {NoModule} : \A req \in RequirementsOf(m) :
        SelectInstalledVersion(disk, req.name, req.version_range).ok

Record(module) == ResolvedDependency(module.name, module.version, module.path)

Positions(module) == {i \in DOMAIN resolved : resolved[i] = Record(module)}

\* The records of the output and the root, each with the positions its
\* dependencies have to come before (none for the root: any position does).
Dependents ==
    {<<NoModule, Len(resolved) + 1>>}
        \cup {<<InstalledModule(resolved[i].name, resolved[i].version), i>> : i \in DOMAIN resolved}

\* C1: when resolve_for_module returns, every requirement declared by the
\* root or by a module of the output is satisfiable, the version that stands
\* for it is in the output, and it is there strictly before the module that
\* declares it.
C1_DependenciesPrecedeDependents ==
    status = "done" =>
        \A dependent \in Dependents :
            \A req \in RequirementsOf(dependent[1]) :
                /\ Selectable(req)
                /\ \E j \in Positions(Best(req)) : j < dependent[2]

\* A returned chain of three: root -> a@1.0.0 -> b@1.0.0 -> c@1.0.0.
C1_Witness ==
    /\ status = "done"
    /\ resolved = <<Record(InstalledModule(<<"c">>, <<"1", ".", "0", ".", "0">>)),
                    Record(InstalledModule(<<"b">>, <<"1", ".", "0", ".", "0">>)),
                    Record(InstalledModule(<<"a">>, <<"1", ".", "0", ".", "0">>))>>

\* The node ids of a cycle text "x -> y -> x".
PathOf(text) ==
    LET Ids(parts) == [i \in 1..((Len(parts) + 1) \div 2) |-> parts[2 * i - 1]]
    IN  Ids(Split(text, " "))

IdsOf(modules) == {NodeId(m) : m \in modules}

\* The listed path starts at a dependency of the root, follows selected
\* dependencies, and ends at a node id it has already passed.
ListsCyclePath(path) ==
    /\ Len(path) >= 2
    /\ Join(path, CycleSeparator) = failure.cycle
    /\ path[1] \in IdsOf(Children(NoModule))
    /\ \A i \in 1..(Len(path) - 1) :
          \E m \in Reached : NodeId(m) = path[i] /\ path[i + 1] \in IdsOf(Children(m))
    /\ \E i \in 1..(Len(path) - 1) : path[i] = path[Len(path)]
    /\ \A i, j \in 1..(Len(path) - 1) : path[i] = path[j] => i = j

\* C2: a node id on the current path is never entered again; the resolver
\* does not return for a graph with a cycle; when every requirement is
\* answered by a selection and the graph has a cycle the call ends with
\* 'Cyclic dependency detected'; and that error lists the path that closes
\* the cycle.
C2_CycleRaises ==
    /\ \A i, j \in DOMAIN visiting : visiting[i] = visiting[j] => i = j
    /\ status = "done" => ~Cyclic
    /\ (status = "error" /\ Cyclic /\ AllSelected) =>
          failure.message = "Cyclic dependency detected"
    /\ failure.message = "Cyclic dependency detected" =>
          /\ status \in {"raising", "error"}
          /\ Cyclic
          /\ ListsCyclePath(PathOf(failure.cycle))

\* root -> a@1.0.0 -> a@2.0.0 -> a@1.0.0 has been refused.
C2_Witness ==
    /\ status = "error"
    /\ failure.message = "Cyclic dependency detected"
    /\ failure.cycle = <<"a", "@", "1", ".", "0", ".", "0", " ", "-", ">", " ", "a", "@", "2", ".", "0", ".", "0", " ", "-", ">", " ", "a", "@", "1", ".", "0", ".", "0">>
    /\ resolved = <<>>

RECURSIVE PostOrder(_, _)
\* The requirements in ascending (name, version_range) order, each one's
\* module after the modules it depends on, no module twice.
PostOrder(reqs, emitted) ==
    LET Visit(module, rest) ==
            IF Record(module) \in Range(emitted) THEN PostOrder(rest, emitted)
            ELSE PostOrder(rest, Append(PostOrder(RequirementsOf(module), emitted),
                                        Record(module)))
        From(least) == Visit(Best(least), reqs \ {least})
    IN  IF reqs = {} THEN emitted
        ELSE From(CHOOSE r \in reqs : \A q \in reqs : q = r \/ KeyLess(r, q))

\* C4: the returned sequence is the post-order of the sets of requirements
\* taken in ascending (name, version_range) order, whatever the order the
\* lists were declared in.
C4_OutputIgnoresDeclaredOrder ==
    status = "done" => resolved = PostOrder(RequirementsOf(NoModule), <<>>)

\* The root declares b before a, and a@2.0.0 depends on c.
C4_Witness ==
    /\ status = "done"
    /\ rootRaw = <<Declared(<<"b">>, <<" ", "*">>), Declared(<<"a">>, <<"*">>)>>
    /\ resolved = <<Record(InstalledModule(<<"c">>, <<"1", ".", "0", ".", "0">>)),
                    Record(InstalledModule(<<"a">>, <<"2", ".", "0", ".", "0">>)),
                    Record(InstalledModule(<<"b">>, <<"1", ".", "0", ".", "0">>))>>

(***************************************************************************)
(* Path segments handed to the registry                                    *)
(***************************************************************************)
\* Names: empty, ".", "..", with a separator, with a leading "-", with a
\* blank, with one trailing newline, and a safe one.
SegmentNames ==
    {<<>>, <<".">>, <<".", ".">>, <<"a", "/", "b">>, <<"a", "\\", "b">>, <<"-", "a">>, <<"a", " ", "b">>, <<"a", "\n">>, <<"a">>}

SegmentVersions == {<<>>, <<".", ".">>, <<"1", ".", "0", ".", "0">>, <<"1", ".", "0", ".", "0", "\n">>}

\* validate_prompt_module lets an empty module.version through and rejects an
\* empty module.name before install looks at it.
SegmentSources ==
    {SourceTree(name, version, <<>>, "plain") :
        name \in SegmentNames \ {<<>>}, version \in SegmentVersions}

InitSegment == EmptyRegistry /\ IdleResolver /\ IdleSelect /\ IdleSchema /\ IdleSemver /\ IdleProcesses

SegmentInstallStep ==
    /\ \E source \in SegmentSources : DoInstall(source, NoFault)
    /\ UNCHANGED <<resolverVars, selectVars, schemaVars, semverVars, processVars>>

SegmentLookupStep ==
    /\ \E name \in SegmentNames, version \in SegmentVersions : DoLookup(name, version)
    /\ UNCHANGED <<resolverVars, selectVars, schemaVars, semverVars, processVars>>

SegmentListByNameStep ==
    /\ \E name \in SegmentNames : DoListByName(name)
    /\ UNCHANGED <<resolverVars, selectVars, schemaVars, semverVars, processVars>>

SegmentHasVersionStep ==
    /\ \E name \in SegmentNames, version \in SegmentVersions : DoHasVersion(name, version)
    /\ UNCHANGED <<resolverVars, selectVars, schemaVars, semverVars, processVars>>

NextSegment ==
    \/ SegmentInstallStep
    \/ SegmentLookupStep
    \/ SegmentListByNameStep
    \/ SegmentHasVersionStep

SpecSegment == InitSegment /\ [][NextSegment]_vars

(***************************************************************************)
(* Properties of the path-safety gate                                      *)
(***************************************************************************)
\* A text of the characters A-Za-z0-9._+- that starts with a letter or a
\* digit and is neither "." nor "..".
SafeSegment(value) ==
    /\ value # <<>>
    /\ value \notin {<<".">>, <<".", ".">>}
    /\ value[1] \in Range(Digits) \cup Range(Lower) \cup Range(Upper)
    /\ \A i \in DOMAIN value :
          value[i] \in Range(Digits) \cup Range(Lower) \cup Range(Upper) \cup {".", "_", "+", "-"}

\* The segments a call validates before it touches the registry directory.
SegmentsOf(call) ==
    IF call.call = "list_by_name" THEN {call.name}
    ELSE IF call.call \in {"install", "lookup", "has_version"} THEN {call.name, call.version}
    ELSE {}

RefusedAsUnsafe ==
    /\ ~op.ok
    /\ op.error = "DependencyError"
    /\ op.message = "unsafe path segment"
    /\ op.entries = <<>>
    /\ disk = op.before

\* C11: install, lookup, list_by_name and has_version accept their name and
\* version exactly when each is a safe segment, and a call with an unsafe
\* segment raises DependencyError with the registry directory untouched.
C11_UnsafeSegmentRefused ==
    /\ (\E s \in SegmentsOf(op) : ~SafeSegment(s)) => RefusedAsUnsafe
    /\ (SegmentsOf(op) # {} /\ \A s \in SegmentsOf(op) : SafeSegment(s)) =>
          op.message # "unsafe path segment"

\* A safe segment, or a safe segment followed by one newline.
SafeUpToNewline(value) ==
    \/ SafeSegment(value)
    \/ /\ value # <<>>
       /\ value[Len(value)] = "\n"
       /\ SafeSegment(SubSeq(value, 1, Len(value) - 1))

\* The gate as the code has it: a segment that ends in one newline passes.
UnsafeSegmentRefusedUpToNewline ==
    /\ (\E s \in SegmentsOf(op) : ~SafeUpToNewline(s)) => RefusedAsUnsafe
    /\ (SegmentsOf(op) # {} /\ \A s \in SegmentsOf(op) : SafeUpToNewline(s)) =>
          op.message # "unsafe path segment"

\* A module was installed into a directory whose name ends in a newline.
NewlineSegmentInstalled ==
    /\ op.call = "install"
    /\ op.ok
    /\ op.version = <<"1", ".", "0", ".", "0", "\n">>
    /\ HasDir(disk, op.name, op.version)

(***************************************************************************)
(* registry.py: LocalRegistry.install, one filesystem call at a time       *)
(*                                                                         *)
(* Each installer is a call of install() by its own process on the same    *)
(* registry directory. A step is one filesystem call of the handler (a     *)
(* tree walk, rmtree and exists-then-act pair each count as one call), so  *)
(* the calls of two processes interleave in any order.                     *)
(***************************************************************************)
Procs == {1, 2}

Installer(pc, source, todo, ok, message) ==
    [pc |-> pc, source |-> source, todo |-> todo, ok |-> ok, message |-> message]

NotCalled == Installer("idle", EmptyTree, <<>>, FALSE, "")

RaceName == <<"a">>

RaceVersion == <<"1", ".", "0", ".", "0">>

\* Two module directories with the same identity and different file sets.
RaceSources == {SourceTree(RaceName, RaceVersion, <<>>, s) : s \in {"plain", "nested"}}

NameOf(p) == installers[p].source.files[ConfigPath].name

VersionOf(p) == installers[p].source.files[ConfigPath].version

TempDirOf(p) == installers[p].source.files[ConfigPath].version \o TmpSuffix

At(p, pc) == p \in DOMAIN installers /\ installers[p].pc = pc

Goto(p, pc) == installers' = [installers EXCEPT ![p].pc = pc]

\* The call returned InstalledModule(...) or raised DependencyError(message).
Finish(p, ok, message) ==
    installers' = [installers EXCEPT ![p].pc = "done", ![p].ok = ok, ![p].message = message]

\* install(module_path): load_prompt_module and _validate_segment of name and version
Start(p, source) ==
    /\ At(p, "idle")
    /\ IF ValidateSegment(source.files[ConfigPath].name)
          /\ ValidateSegment(source.files[ConfigPath].version)
       THEN installers' = [installers EXCEPT ![p] = Installer("check", source, <<>>, FALSE, "")]
       ELSE installers' = [installers EXCEPT ![p] =
                               Installer("done", source, <<>>, FALSE, "unsafe path segment")]
    /\ UNCHANGED registryVars

\* if os.path.exists(destination): raise DependencyError("Module already installed ...")
CheckDestination(p) ==
    /\ At(p, "check")
    /\ IF AlreadyInstalled(disk, NameOf(p), VersionOf(p))
       THEN Finish(p, FALSE, "Module already installed")
       ELSE Goto(p, "makedirs")
    /\ UNCHANGED registryVars

\* os.makedirs(os.path.dirname(destination), exist_ok=True)
MakeParent(p) ==
    /\ At(p, "makedirs")
    /\ disk' = MakeNameDir(disk, NameOf(p))
    /\ Goto(p, "stale")
    /\ UNCHANGED <<published, op, tampers>>

\* if os.path.exists(temp_dir): shutil.rmtree(temp_dir)
RemoveStale(p) ==
    /\ At(p, "stale")
    /\ disk' = RemoveStaleStaging(disk, NameOf(p), TempDirOf(p))
    /\ Goto(p, "mkdir")
    /\ UNCHANGED <<published, op, tampers>>

\* _copy_tree_deterministic: destination_root.mkdir(parents=True, exist_ok=False)
\* raises FileExistsError when the staging directory is there.
MakeStaging(p) ==
    /\ At(p, "mkdir")
    /\ IF HasDir(disk, NameOf(p), TempDirOf(p))
       THEN Goto(p, "except") /\ UNCHANGED disk
       ELSE /\ disk' = PutDir(MakeNameDir(disk, NameOf(p)), NameOf(p), TempDirOf(p), EmptyTree)
            /\ installers' = [installers EXCEPT ![p].pc = "copy",
                                                ![p].todo = IterFilesSorted(installers[p].source).paths]
    /\ UNCHANGED <<published, op, tampers>>

\* One round of the copy loop: target_path.parent.mkdir(parents=True,
\* exist_ok=True) makes the staging directory again when it is gone, and
\* shutil.copy2 writes the file. After the last file the walk ends, or raises
\* for a symbolic link.
CopyFile(p) ==
    /\ At(p, "copy")
    /\ IF installers[p].todo = <<>>
       THEN /\ Goto(p, IF IterFilesSorted(installers[p].source).ok THEN "manifest" ELSE "except")
            /\ UNCHANGED disk
       ELSE /\ \E path \in {installers[p].todo[1]} :
                 disk' = PutDir(disk, NameOf(p), TempDirOf(p),
                                WithFile(IF HasDir(disk, NameOf(p), TempDirOf(p))
                                         THEN disk[NameOf(p)][TempDirOf(p)] ELSE EmptyTree,
                                         path, installers[p].source.files[path]))
            /\ installers' = [installers EXCEPT ![p].todo = Tail(installers[p].todo)]
    /\ UNCHANGED <<published, op, tampers>>

\* _write_immutability_manifest(temp_dir, ...): the walk of a directory that
\* is gone yields nothing and open(manifest_path, "w") raises FileNotFoundError.
WriteManifest(p) ==
    /\ At(p, "manifest")
    /\ IF ~HasDir(disk, NameOf(p), TempDirOf(p))
       THEN Goto(p, "except") /\ UNCHANGED disk
       ELSE \E written \in {WriteImmutabilityManifest(disk[NameOf(p)][TempDirOf(p)],
                                                      NameOf(p), VersionOf(p), FALSE)} :
               IF written.ok
               THEN /\ disk' = PutDir(disk, NameOf(p), TempDirOf(p), written.tree)
                    /\ Goto(p, "replace")
               ELSE Goto(p, "except") /\ UNCHANGED disk
    /\ UNCHANGED <<published, op, tampers>>

\* os.replace(temp_dir, destination): raises when the staging directory is
\* gone, and when the destination is a directory that is not empty (POSIX
\* rename replaces an empty directory).
ReplaceStaging(p) ==
    /\ At(p, "replace")
    /\ IF \/ ~HasDir(disk, NameOf(p), TempDirOf(p))
          \/ /\ HasDir(disk, NameOf(p), VersionOf(p))
             /\ disk[NameOf(p)][VersionOf(p)] # EmptyTree
       THEN Goto(p, "except") /\ UNCHANGED <<disk, published>>
       ELSE /\ disk' = Replace(disk, NameOf(p), TempDirOf(p), VersionOf(p))
            /\ published' =
                  [id \in DOMAIN published \cup {<<NameOf(p), VersionOf(p)>>} |->
                      IF id = <<NameOf(p), VersionOf(p)>> THEN disk[NameOf(p)][TempDirOf(p)]
                      ELSE published[id]]
            /\ Finish(p, TRUE, "")
    /\ UNCHANGED <<op, tampers>>

\* except Exception: if os.path.isdir(temp_dir): shutil.rmtree(temp_dir); raise DependencyError
ExceptCleanup(p) ==
    /\ At(p, "except")
    /\ disk' = CleanupStaging(disk, NameOf(p), TempDirOf(p))
    /\ Finish(p, FALSE, "Failed to install module")
    /\ UNCHANGED <<published, op, tampers>>

InitRace ==
    /\ EmptyRegistry
    /\ IdleResolver
    /\ IdleSelect /\ IdleSchema /\ IdleSemver
    /\ installers = [p \in Procs |-> NotCalled]
    /\ cwd = EmptyTree
    /\ command = NoCommand

StartStep ==
    /\ \E p \in Procs, source \in RaceSources : Start(p, source)
    /\ UNCHANGED <<resolverVars, selectVars, schemaVars, semverVars, cliVars>>

CheckDestinationStep ==
    /\ \E p \in Procs : CheckDestination(p)
    /\ UNCHANGED <<resolverVars, selectVars, schemaVars, semverVars, cliVars>>

MakeParentStep ==
    /\ \E p \in Procs : MakeParent(p)
    /\ UNCHANGED <<resolverVars, selectVars, schemaVars, semverVars, cliVars>>

RemoveStaleStep ==
    /\ \E p \in Procs : RemoveStale(p)
    /\ UNCHANGED <<resolverVars, selectVars, schemaVars, semverVars, cliVars>>

MakeStagingStep ==
    /\ \E p \in Procs : MakeStaging(p)
    /\ UNCHANGED <<resolverVars, selectVars, schemaVars, semverVars, cliVars>>

CopyFileStep ==
    /\ \E p \in Procs : CopyFile(p)
    /\ UNCHANGED <<resolverVars, selectVars, schemaVars, semverVars, cliVars>>

WriteManifestStep ==
    /\ \E p \in Procs : WriteManifest(p)
    /\ UNCHANGED <<resolverVars, selectVars, schemaVars, semverVars, cliVars>>

ReplaceStagingStep ==
    /\ \E p \in Procs : ReplaceStaging(p)
    /\ UNCHANGED <<resolverVars, selectVars, schemaVars, semverVars, cliVars>>

ExceptCleanupStep ==
    /\ \E p \in Procs : ExceptCleanup(p)
    /\ UNCHANGED <<resolverVars, selectVars, schemaVars, semverVars, cliVars>>

\* Reads made by another process while the installs run.
ConcurrentLookupStep ==
    /\ DoLookup(RaceName, RaceVersion)
    /\ UNCHANGED <<resolverVars, selectVars, schemaVars, semverVars, processVars>>

ConcurrentListByNameStep ==
    /\ DoListByName(RaceName)
    /\ UNCHANGED <<resolverVars, selectVars, schemaVars, semverVars, processVars>>

ConcurrentListInstalledStep ==
    /\ DoListInstalled
    /\ UNCHANGED <<resolverVars, selectVars, schemaVars, semverVars, processVars>>

NextRace ==
    \/ StartStep
    \/ CheckDestinationStep
    \/ MakeParentStep
    \/ RemoveStaleStep
    \/ MakeStagingStep
    \/ CopyFileStep
    \/ WriteManifestStep
    \/ ReplaceStagingStep
    \/ ExceptCleanupStep
    \/ ConcurrentLookupStep
    \/ ConcurrentListByNameStep
    \/ ConcurrentListInstalledStep

SpecRace == InitRace /\ [][NextRace]_vars

(***************************************************************************)
(* Properties of concurrent installs                                       *)
(***************************************************************************)
BothReturned == \A p \in Procs : At(p, "done")

Winners == {p \in Procs : At(p, "done") /\ installers[p].ok}

\* What install of this module directory into an empty registry leaves at N/V.
CompleteInstall(source) ==
    Install(<<>>, source, NoFault).disk[source.files[ConfigPath].name][source.files[ConfigPath].version]

\* C12: when two installs of one (name, version) ran interleaved and both
\* returned, exactly one succeeded, the other raised DependencyError, the
\* directory N/V is the complete install of the winner's module directory
\* with a file set matching its manifest, and no staging directory is left.
C12_ConcurrentInstallFirstWins ==
    BothReturned =>
        /\ Cardinality(Winners) = 1
        /\ HasDir(disk, RaceName, RaceVersion)
        /\ FilesMatchManifest(disk[RaceName][RaceVersion], RaceName, RaceVersion)
        /\ \A p \in Winners : disk[RaceName][RaceVersion] = CompleteInstall(installers[p].source)
        /\ ~HasDir(disk, RaceName, RaceVersion \o TmpSuffix)

\* Both calls raised and nothing was installed.
BothInstallsFailed == BothReturned /\ Winners = {} /\ ~HasDir(disk, RaceName, RaceVersion)

\* A call returned successfully and N/V lacks files of its module directory.
WinnerInstalledIncomplete ==
    \E p \in Winners :
        /\ HasDir(disk, RaceName, RaceVersion)
        /\ DOMAIN Content(disk[RaceName][RaceVersion]) # DOMAIN Content(CompleteInstall(installers[p].source))

\* A call returned successfully and left an empty directory at N/V.
WinnerInstalledNothing ==
    /\ Winners # {}
    /\ HasDir(disk, RaceName, RaceVersion)
    /\ disk[RaceName][RaceVersion] = EmptyTree

\* An install that no other install overlaps does what install does in one
\* piece: the stepwise handler and Install agree.
LoneInstallMatchesInstall ==
    \A p \in Procs :
        (At(p, "done") /\ \A q \in Procs \ {p} : At(q, "idle")) =>
            /\ installers[p].ok
            /\ disk = Install(<<>>, installers[p].source, NoFault).disk
            /\ ~HasDir(disk, RaceName, RaceVersion \o TmpSuffix)

\* No staging directory is left once both calls returned.
NoStagingLeftBehind == BothReturned => ~HasDir(disk, RaceName, RaceVersion \o TmpSuffix)

(***************************************************************************)
(* Properties of reads made while an install runs                          *)
(***************************************************************************)
Reads == {"lookup", "list_by_name", "list_installed"}

\* Only installer p was ever called; the other process made reads only.
OnlyInstaller(p) == p \in DOMAIN installers /\ \A q \in DOMAIN installers \ {p} : At(q, "idle")

\* The read that ran last returned (for lookup: returned, or reported the
\* identity as not found), and every module it returned is N@V with the
\* complete install of p's module directory on the disk it read.
SawAllOrNothing(p) ==
    /\ op.ok \/ (op.call = "lookup" /\ op.message = "Module not found")
    /\ \A i \in DOMAIN op.entries :
          /\ op.entries[i] = InstalledModule(RaceName, RaceVersion)
          /\ HasDir(op.before, RaceName, RaceVersion)
          /\ op.before[RaceName][RaceVersion] = CompleteInstall(installers[p].source)

\* C13: a lookup, list_by_name or list_installed made at any point of a
\* single install of N@V returns successfully and reports N@V either not at
\* all or completely installed.
C13_ReadsSeeAllOrNothing ==
    \A p \in Procs : (OnlyInstaller(p) /\ op.call \in Reads) => SawAllOrNothing(p)

\* What holds: lookup of N@V during a single install sees all or nothing.
LookupSeesAllOrNothing ==
    \A p \in Procs : (OnlyInstaller(p) /\ op.call = "lookup") => SawAllOrNothing(p)

\* What holds: a listing made during a single install raises only while the
\* staging directory is there, and a listing that returns sees all or nothing.
ListingRaisesOnlyOverStaging ==
    \A p \in Procs :
        (OnlyInstaller(p) /\ op.call \in {"list_by_name", "list_installed"}) =>
            IF HasDir(op.before, RaceName, RaceVersion \o TmpSuffix)
            THEN ~op.ok
            ELSE SawAllOrNothing(p)

\* list_by_name raised DependencyError while the only install was copying.
ListingRaisedDuringInstall ==
    \E p \in Procs :
        /\ OnlyInstaller(p)
        /\ At(p, "copy")
        /\ op.call = "list_by_name"
        /\ ~op.ok
        /\ op.before = disk

\* The final path is written by the rename alone: a step that changes N/V
\* is the os.replace of an installer.
FinalPathWrittenByRenameOnly ==
    [][(HasDir(disk', RaceName, RaceVersion) /\
        (~HasDir(disk, RaceName, RaceVersion) \/ disk'[RaceName][RaceVersion] # disk[RaceName][RaceVersion]))
        => \E p \in Procs : At(p, "replace") /\ installers'[p].pc = "done" /\ installers'[p].ok]_vars

(***************************************************************************)
(* schema_and_validator.py, test_runner.py: what the commands read         *)
(*                                                                         *)
(* A module document carries the outcome of the schema rules that do not   *)
(* look at name and version in its field schema: "valid", "invalid" (a     *)
(* rule raises ValidationError) or "broken" (interface is not a mapping,   *)
(* which _validate_prompt_block dereferences before it is checked). A test *)
(* case is a name and the data its assertion expects of the rendered       *)
(* template.                                                               *)
(***************************************************************************)
Raised(class, message) == [raised |-> class, message |-> message, value |-> <<>>]

Returned(value) == [raised |-> "", message |-> "", value |-> value]

\* A promptpm.yaml that yaml.safe_load cannot parse.
Unparseable == DataFile(0)

\* load_prompt_module(path)
LoadPromptModule(tree) ==
    IF ConfigPath \notin DOMAIN tree.files
    THEN Raised("ValidationError", "Missing promptpm.yaml or promptpm.toml")
    ELSE IF tree.files[ConfigPath] = Unparseable
    THEN Raised("Exception", "yaml scanner error")
    ELSE IF tree.files[ConfigPath].kind # "module"
    THEN Raised("ValidationError", "Module definition must be a mapping")
    ELSE Returned(tree.files[ConfigPath])

\* validate_prompt_module(module)
ValidatePromptModule(module) ==
    IF module.name = <<>>
    THEN Raised("ValidationError", "module.name must be a non-empty string")
    ELSE IF module.schema = "broken"
    THEN Raised("Exception", "'list' object has no attribute 'get'")
    ELSE IF module.schema # "valid"
    THEN Raised("ValidationError", "schema rule violated")
    ELSE Returned(module)

\* load_prompt_module followed by validate_prompt_module
LoadValid(tree) ==
    LET Loaded(loaded) == IF loaded.raised # "" THEN loaded ELSE ValidatePromptModule(loaded.value)
    IN  Loaded(LoadPromptModule(tree))

TestCase(name, expects) == [name |-> name, expects |-> expects]

\* parsed.sort(key=lambda entry: (entry.name, entry.original_index)), a stable sort by name
InsertTest(sorted, e) ==
    LET Placed(pos) == SubSeq(sorted, 1, pos) \o <<e>> \o SubSeq(sorted, pos + 1, Len(sorted))
    IN  Placed(Cardinality({i \in DOMAIN sorted : ~StrLess(e.name, sorted[i].name)}))

RECURSIVE ParseTests(_)
ParseTests(rawTests) ==
    IF rawTests = <<>> THEN <<>>
    ELSE InsertTest(ParseTests(SubSeq(rawTests, 1, Len(rawTests) - 1)), rawTests[Len(rawTests)])

TestRunResult(total, passed, failed, results) ==
    [total |-> total, passed |-> passed, failed |-> failed, results |-> results]

\* run_prompt_module_tests(module_path): the template is rendered for each
\* test case in sorted order and the case passes when its assertion holds
\* of the rendered text.
RunPromptModuleTests(tree) ==
    LET Summed(results) ==
            Returned(TestRunResult(Len(results),
                                   Cardinality({i \in DOMAIN results : results[i].passed}),
                                   Len(results) - Cardinality({i \in DOMAIN results : results[i].passed}),
                                   results))
        Ran(cases, template) ==
            Summed([i \in DOMAIN cases |->
                      [name |-> cases[i].name, passed |-> cases[i].expects = template.data]])
        Loaded(loaded) ==
            IF loaded.raised # "" THEN loaded
            ELSE IF TemplatePath \notin DOMAIN tree.files
            THEN Raised("ValidationError", "Template file not found")
            ELSE Ran(ParseTests(loaded.value.tests), tree.files[TemplatePath])
    IN  Loaded(LoadValid(tree))

(***************************************************************************)
(* core/errors.py, utils/output.py, commands/*.py                          *)
(***************************************************************************)
SUCCESS_EXIT_CODE == 0
VALIDATION_EXIT_CODE == 1
TEST_FAILURE_EXIT_CODE == 2
DEPENDENCY_EXIT_CODE == 3
PUBLISH_CONFLICT_EXIT_CODE == 4
INTERNAL_EXIT_CODE == 5

\* The class attribute `code` of the error classes.
CodeOf(class) ==
    CASE class = "ValidationError" -> "VALIDATION_ERROR"
      [] class = "DependencyError" -> "DEPENDENCY_ERROR"
      [] class = "PublishConflictError" -> "PUBLISH_CONFLICT"
      [] OTHER -> "INTERNAL_ERROR"

Contains(text, part) ==
    \E i \in 1..(Len(text) - Len(part) + 1) : SubSeq(text, i, i + Len(part) - 1) = part

\* Variant: only "://" marks a registry that is not local.
EnsureLocalRegistryPathSchemeOnly(rawPath) ==
    LET Checked(normalized) ==
            IF Contains(normalized, <<":", "/", "/">>)
            THEN Raised("DependencyError", "Registry must be a local filesystem path")
            ELSE Returned(normalized)
    IN  Checked(Strip(rawPath))

\* _ensure_local_registry_path(raw_path)
EnsureLocalRegistryPath(rawPath) ==
    LET Checked(normalized) ==
            IF Contains(normalized, <<":", "/", "/">>) \/ StartsWith(normalized, <<"h", "t", "t", "p", ":">>)
               \/ StartsWith(normalized, <<"h", "t", "t", "p", "s", ":">>)
            THEN Raised("DependencyError", "Registry must be a local filesystem path")
            ELSE Returned(normalized)
    IN  Checked(Strip(rawPath))

ErrorBody(code, message, hint, path) ==
    [code |-> code, message |-> message, hint |-> hint, path |-> path]

\* The error payloads of init, test, install, publish, list and info.
ErrorPayload(operation, code, message, hint, path) ==
    [ok |-> FALSE, operation |-> operation, error |-> ErrorBody(code, message, hint, path)]

\* _test_failure_payload of test and publish: an error and the data of the run.
TestFailurePayload(operation, result, hint) ==
    [ok |-> FALSE, operation |-> operation,
     error |-> ErrorBody("TEST_FAILURE", "test(s) failed", hint, "module_path"),
     data |-> result]

SuccessPayload(operation, data) == [ok |-> TRUE, operation |-> operation, data |-> data]

\* validate.py builds its payloads without the operation key.
ValidateErrorPayload(code, message, hint) ==
    [ok |-> FALSE, error |-> ErrorBody(code, message, hint, "module_path")]

ValidateSuccessPayload(data) == [ok |-> TRUE, data |-> data]

\* emit(payload, mode=..., quiet=...): what is printed after it
EmitPayload(emitted, payload, quiet) ==
    IF quiet /\ payload.ok THEN emitted ELSE Append(emitted, payload)

\* Variant: the dependency and publish-conflict clauses exit with each other's code.
ExitOfSwapped(class) ==
    CASE class = "ValidationError" -> VALIDATION_EXIT_CODE
      [] class = "DependencyError" -> PUBLISH_CONFLICT_EXIT_CODE
      [] class = "PublishConflictError" -> DEPENDENCY_EXIT_CODE
      [] OTHER -> INTERNAL_EXIT_CODE

\* The exit code of the except clause that catches an error of this class.
ExitOf(class) ==
    CASE class = "ValidationError" -> VALIDATION_EXIT_CODE
      [] class = "DependencyError" -> DEPENDENCY_EXIT_CODE
      [] class = "PublishConflictError" -> PUBLISH_CONFLICT_EXIT_CODE
      [] OTHER -> INTERNAL_EXIT_CODE

\* The except clauses of a command: an error of a class the command catches
\* by name gives err.code and the exit code of that clause, anything else is
\* caught as Exception and reported as INTERNAL_ERROR.
Caught(caught, err) ==
    IF err.raised \in caught
    THEN [code |-> CodeOf(err.raised), exit |-> ExitOf(err.raised), message |-> err.message]
    ELSE [code |-> "INTERNAL_ERROR", exit |-> INTERNAL_EXIT_CODE, message |-> err.message]

\* A module directory: files, symbolic links, and the empty directories in it.
ModuleDir(files, links, dirs) == [files |-> files, links |-> links, dirs |-> dirs]

Invocation(operation, pc, quiet, steps, emitted, exit, before, cwdBefore) ==
    [operation |-> operation, pc |-> pc, quiet |-> quiet, steps |-> steps, emitted |-> emitted,
     exit |-> exit, before |-> before, cwdBefore |-> cwdBefore]

\* emit(payload, ...) followed by raise SystemExit(exit): the command that
\* started on registry `before` is over.
Exits(operation, quiet, steps, payload, exit, before, cwdBefore) ==
    command' = Invocation(operation, "ready", quiet, steps, EmitPayload(<<>>, payload, quiet),
                          exit, before, cwdBefore)

\* A command that handles its errors the common way and ends in one step.
Fails(operation, quiet, caught, err, hint, path) ==
    \E c \in {Caught(caught, err)} :
        Exits(operation, quiet, <<>>, ErrorPayload(operation, c.code, c.message, hint, path),
              c.exit, disk, cwd)

Ready == command.pc = "ready"

TestsDir == <<"t", "e", "s", "t", "s">>

\* os.path.basename(os.getcwd()), the default module name of init
DirectoryName == <<"m">>

\* What init writes to promptpm.yaml: the module with one test, "basic",
\* whose assertion holds of the template init writes.
ScaffoldDocument(name, version) ==
    [ModuleDocument(name, version, <<>>) EXCEPT !.tests = <<TestCase(<<"b", "a", "s", "i", "c">>, 1)>>]

\* promptpm init [--name NAME] [--version VERSION]
InitCommand(moduleName, moduleVersion, quiet) ==
    LET effectiveName == Strip(IF moduleName = <<>> THEN DirectoryName ELSE moduleName)
        conflicts ==
            \/ ConfigPath \in DOMAIN cwd.files \cup cwd.links
            \/ TemplatePath \in DOMAIN cwd.files \cup cwd.links
            \/ TestsDir \in cwd.dirs
            \/ \E p \in DOMAIN cwd.files \cup cwd.links : p[1] = TestsDir
    IN  /\ Ready
        /\ IF effectiveName = <<>>
           THEN /\ Fails("init", quiet, {"ValidationError"},
                         Raised("ValidationError", "module name must be a non-empty string"),
                         "Run promptpm init in an empty module directory", "module_path")
                /\ UNCHANGED cwd
           ELSE IF Strip(moduleVersion) = <<>>
           THEN /\ Fails("init", quiet, {"ValidationError"},
                         Raised("ValidationError", "module version must be a non-empty string"),
                         "Run promptpm init in an empty module directory", "module_path")
                /\ UNCHANGED cwd
           ELSE IF conflicts
           THEN /\ Fails("init", quiet, {"ValidationError"},
                         Raised("ValidationError", "Initialization would overwrite existing paths"),
                         "Run promptpm init in an empty module directory", "module_path")
                /\ UNCHANGED cwd
           ELSE /\ cwd' = ModuleDir((ConfigPath :> ScaffoldDocument(effectiveName, Strip(moduleVersion)))
                                    @@ (TemplatePath :> DataFile(1)) @@ cwd.files,
                                    cwd.links, cwd.dirs \cup {TestsDir})
                /\ Exits("init", quiet, <<>>,
                         SuccessPayload("init", [name |-> effectiveName, version |-> Strip(moduleVersion)]),
                         SUCCESS_EXIT_CODE, disk, cwd)
        /\ UNCHANGED <<registryVars, resolverVars, selectVars, schemaVars, semverVars, installers>>

\* promptpm validate <path>
ValidateCommand(quiet) ==
    /\ Ready
    /\ \E loaded \in {LoadValid(cwd)} :
          IF loaded.raised # ""
          THEN \E c \in {Caught({"ValidationError"}, loaded)} :
                  command' = Invocation("validate", "ready", quiet, <<>>,
                                        EmitPayload(<<>>, ValidateErrorPayload(c.code, c.message,
                                                          "Fix the module definition and run promptpm validate again."),
                                                    quiet),
                                        c.exit, disk, cwd)
          ELSE command' = Invocation("validate", "ready", quiet, <<>>,
                                     EmitPayload(<<>>, ValidateSuccessPayload([path |-> "module_path",
                                                                                source |-> ConfigPath]),
                                                 quiet),
                                     SUCCESS_EXIT_CODE, disk, cwd)
    /\ UNCHANGED <<cwd, registryVars, resolverVars, selectVars, schemaVars, semverVars, installers>>

\* promptpm test <path>
TestCommand(quiet) ==
    /\ Ready
    /\ \E ran \in {RunPromptModuleTests(cwd)} :
          IF ran.raised # ""
          THEN Fails("test", quiet, {"ValidationError"}, ran,
                     "Fix module or test schema issues and run promptpm test again.", "module_path")
          ELSE IF ran.value.failed > 0
          THEN Exits("test", quiet, <<>>,
                     TestFailurePayload("test", ran.value,
                                        "Inspect failure diagnostics and update tests, inputs, or templates."),
                     TEST_FAILURE_EXIT_CODE, disk, cwd)
          ELSE Exits("test", quiet, <<>>, SuccessPayload("test", ran.value), SUCCESS_EXIT_CODE, disk, cwd)
    /\ UNCHANGED <<cwd, registryVars, resolverVars, selectVars, schemaVars, semverVars, installers>>

\* promptpm --registry <registryRaw> list
ListCommand(registryRaw, quiet) ==
    /\ Ready
    /\ \E local \in {EnsureLocalRegistryPath(registryRaw)}, listed \in {ListInstalled(disk)} :
          IF local.raised # ""
          THEN Fails("list", quiet, {"DependencyError"}, local,
                     "Use a valid local registry path and verify installed module integrity.", registryRaw)
          ELSE IF ~listed.ok
          THEN Fails("list", quiet, {"DependencyError"}, Raised("DependencyError", listed.message),
                     "Use a valid local registry path and verify installed module integrity.", registryRaw)
          ELSE Exits("list", quiet, <<>>,
                     SuccessPayload("list", [count |-> Len(listed.entries), modules |-> listed.entries]),
                     SUCCESS_EXIT_CODE, disk, cwd)
    /\ UNCHANGED <<cwd, registryVars, resolverVars, selectVars, schemaVars, semverVars, installers>>

\* _serialize_module_info of each listed version, in order: the first
\* installed module that does not load or validate ends the command.
SerializeModuleInfos(d, entries) ==
    LET infos == [i \in DOMAIN entries |-> LoadValid(d[entries[i].name][entries[i].version])]
        Ended(failed) ==
            IF failed = {} THEN Returned([i \in DOMAIN entries |-> infos[i].value])
            ELSE infos[CHOOSE i \in failed : \A j \in failed : i <= j]
    IN  Ended({i \in DOMAIN entries : infos[i].raised # ""})

\* promptpm --registry <registryRaw> info <module_name>
InfoCommand(registryRaw, moduleName, quiet) ==
    LET Hint == "Use a valid local registry path and a module name that exists."
        Described(infos) ==
            IF infos.raised # ""
            THEN Fails("info", quiet, {"ValidationError", "DependencyError"}, infos,
                       IF infos.raised = "ValidationError"
                       THEN "Ensure installed module metadata and interface are valid." ELSE Hint,
                       moduleName)
            ELSE Exits("info", quiet, <<>>,
                       SuccessPayload("info", [name |-> moduleName, count |-> Len(infos.value),
                                               versions |-> infos.value]),
                       SUCCESS_EXIT_CODE, disk, cwd)
    IN  /\ Ready
        /\ \E local \in {EnsureLocalRegistryPath(registryRaw)}, listed \in {ListByName(disk, moduleName)} :
              IF local.raised # ""
              THEN Fails("info", quiet, {"ValidationError", "DependencyError"}, local, Hint, moduleName)
              ELSE IF ~listed.ok
              THEN Fails("info", quiet, {"ValidationError", "DependencyError"},
                         Raised("DependencyError", listed.message), Hint, moduleName)
              ELSE IF listed.entries = <<>>
              THEN Fails("info", quiet, {"ValidationError", "DependencyError"},
                         Raised("DependencyError", "Module not found"), Hint, moduleName)
              ELSE Described(SerializeModuleInfos(disk, listed.entries))
        /\ UNCHANGED <<cwd, registryVars, resolverVars, selectVars, schemaVars, semverVars, installers>>

\* promptpm --registry <registryRaw> install <path>, up to the dependency
\* walk of resolve_for_module; the walk is made by the resolver's own steps.
InstallCommandStart(registryRaw, quiet) ==
    LET Hint == "Ensure all dependencies are available in the local registry"
    IN  /\ Ready
        /\ status = "idle"
        /\ \E local \in {EnsureLocalRegistryPath(registryRaw)}, loaded \in {LoadValid(cwd)} :
              IF local.raised # ""
              THEN /\ Fails("install", quiet, {"ValidationError", "DependencyError"}, local, Hint,
                            "module_path")
                   /\ UNCHANGED rootRaw
              ELSE IF loaded.raised # ""
              THEN /\ Fails("install", quiet, {"ValidationError", "DependencyError"}, loaded,
                            "Fix module validation issues before installing dependencies.",
                            "module_path")
                   /\ UNCHANGED rootRaw
              ELSE /\ rootRaw' = loaded.value.dependencies
                   /\ command' = Invocation("install", "resolving", quiet, <<>>, <<>>, -1, disk, cwd)
        /\ UNCHANGED <<status, frames, visiting, visited, resolved, failure>>
        /\ UNCHANGED <<cwd, registryVars, selectVars, schemaVars, semverVars, installers>>

\* resolve_for_module returned or raised DependencyError: the command emits
\* its payload and exits.
InstallCommandFinish ==
    /\ command.pc = "resolving"
    /\ status \in {"done", "error"}
    /\ IF status = "done"
       THEN Exits("install", command.quiet, <<>>,
                  SuccessPayload("install", [installed |-> resolved, count |-> Len(resolved)]),
                  SUCCESS_EXIT_CODE, command.before, command.cwdBefore)
       ELSE \E c \in {Caught({"ValidationError", "DependencyError"},
                             Raised("DependencyError", failure.message))} :
               Exits("install", command.quiet, <<>>,
                     ErrorPayload("install", c.code, c.message,
                                  "Ensure all dependencies are available in the local registry",
                                  "module_path"),
                     c.exit, command.before, command.cwdBefore)
    /\ rootRaw' = <<>>
    /\ status' = "idle"
    /\ frames' = <<>>
    /\ visiting' = <<>>
    /\ visited' = {}
    /\ resolved' = <<>>
    /\ failure' = NoFailure
    /\ UNCHANGED <<cwd, registryVars, selectVars, schemaVars, semverVars, installers>>

PublishHint(class) ==
    CASE class = "ValidationError" -> "Fix module validation issues before publishing."
      [] class = "DependencyError" -> "Use a valid local registry path and retry."
      [] class = "PublishConflictError" -> "Bump module version before publishing again."
      [] OTHER -> "Retry the command and inspect traceback in debug logs."

\* The except clauses of publish.
PublishFails(quiet, steps, err, before) ==
    \E c \in {Caught({"ValidationError", "PublishConflictError", "DependencyError"}, err)} :
        Exits("publish", quiet, steps,
              ErrorPayload("publish", c.code, c.message, PublishHint(err.raised), "module_path"),
              c.exit, before, cwd)

\* promptpm --registry <registryRaw> publish <path>: _ensure_local_registry_path,
\* load_prompt_module and validate_prompt_module
PublishValidate(registryRaw, quiet) ==
    /\ Ready
    /\ \E local \in {EnsureLocalRegistryPath(registryRaw)}, loaded \in {LoadValid(cwd)} :
          IF local.raised # "" THEN PublishFails(quiet, <<>>, local, disk)
          ELSE IF loaded.raised # "" THEN PublishFails(quiet, <<"validate">>, loaded, disk)
          ELSE command' = Invocation("publish", "tests", quiet, <<"validate">>, <<>>, -1, disk, cwd)
    /\ UNCHANGED <<cwd, registryVars, resolverVars, selectVars, schemaVars, semverVars, installers>>

\* Variant: publish goes on to the registry whatever the tests did.
PublishTestsUnchecked ==
    /\ command.pc = "tests"
    /\ command' = [command EXCEPT !.pc = "has_version", !.steps = Append(command.steps, "tests")]
    /\ UNCHANGED <<cwd, registryVars, resolverVars, selectVars, schemaVars, semverVars, installers>>

\* publish: run_prompt_module_tests(path) and the test_result.failed check
PublishTests ==
    /\ command.pc = "tests"
    /\ \E ran \in {RunPromptModuleTests(cwd)} :
          IF ran.raised # ""
          THEN PublishFails(command.quiet, Append(command.steps, "tests"), ran, command.before)
          ELSE IF ran.value.failed > 0
          THEN Exits("publish", command.quiet, Append(command.steps, "tests"),
                     TestFailurePayload("publish", ran.value, "Fix failing tests before publishing."),
                     TEST_FAILURE_EXIT_CODE, command.before, cwd)
          ELSE command' = [command EXCEPT !.pc = "has_version", !.steps = Append(command.steps, "tests")]
    /\ UNCHANGED <<cwd, registryVars, resolverVars, selectVars, schemaVars, semverVars, installers>>

\* publish: registry.has_version(module_name, module_version)
PublishHasVersion ==
    LET name == cwd.files[ConfigPath].name
        version == cwd.files[ConfigPath].version
    IN  /\ command.pc = "has_version"
        /\ IF ~ValidateSegment(name) \/ ~ValidateSegment(version)
           THEN PublishFails(command.quiet, Append(command.steps, "has_version"),
                             Raised("DependencyError", "unsafe path segment"), command.before)
           ELSE IF HasVersion(disk, name, version)
           THEN PublishFails(command.quiet, Append(command.steps, "has_version"),
                             Raised("PublishConflictError", "Published version already exists"),
                             command.before)
           ELSE command' = [command EXCEPT !.pc = "install",
                                           !.steps = Append(command.steps, "has_version")]
        /\ UNCHANGED <<cwd, registryVars, resolverVars, selectVars, schemaVars, semverVars, installers>>

\* publish: registry.install(path) and the success payload
PublishInstall(fault) ==
    /\ command.pc = "install"
    /\ \E result \in {Install(disk, cwd, fault)}, ran \in {RunPromptModuleTests(cwd)} :
          /\ disk' = result.disk
          /\ published' =
                IF result.ok
                THEN [id \in DOMAIN published \cup {<<result.entries[1].name, result.entries[1].version>>} |->
                        IF id = <<result.entries[1].name, result.entries[1].version>>
                        THEN result.disk[id[1]][id[2]] ELSE published[id]]
                ELSE published
          /\ IF result.ok
             THEN Exits("publish", command.quiet, Append(command.steps, "install"),
                        SuccessPayload("publish", [name |-> result.entries[1].name,
                                                   version |-> result.entries[1].version,
                                                   tests |-> ran.value]),
                        SUCCESS_EXIT_CODE, command.before, cwd)
             ELSE PublishFails(command.quiet, Append(command.steps, "install"),
                               Raised("DependencyError", result.message), command.before)
    /\ UNCHANGED <<cwd, op, tampers, resolverVars, selectVars, schemaVars, semverVars, installers>>

(***************************************************************************)
(* The command line: module directories, options, and the commands as      *)
(* actions of one user running them one after the other                    *)
(***************************************************************************)
TestedDocument(name, version, dependencies, schema, tests) ==
    [ModuleDocument(name, version, dependencies) EXCEPT !.schema = schema, !.tests = tests]

\* A module directory with promptpm.yaml and the template (whose rendered
\* text is 1).
Module(document) == ModuleDir((ConfigPath :> document) @@ (TemplatePath :> DataFile(1)), {}, {})

Passing == <<TestCase(<<"t">>, 1)>>

\* The second case in declared order is the first in name order, and fails.
Failing == <<TestCase(<<"t">>, 1), TestCase(<<"s">>, 2)>>

\* The module directories: an empty one, "a" with passing and with failing
\* tests, "b" that depends on "a", "c" that depends on "a", "b" and itself,
\* documents that do not validate, do not load or name no safe segment, a
\* module without its template and one with a symbolic link.
CliDirs ==
    {ModuleDir(<<>>, {}, {}),
     Module(TestedDocument(<<"a">>, <<"1", ".", "0", ".", "0">>, <<>>, "valid", Passing)),
     Module(TestedDocument(<<"a">>, <<"1", ".", "0", ".", "0">>, <<>>, "valid", Failing)),
     Module(TestedDocument(<<"b">>, <<"1", ".", "0", ".", "0">>, <<Declared(<<"a">>, <<"^", "1", ".", "0", ".", "0">>)>>, "valid", <<>>)),
     Module(TestedDocument(<<"c">>, <<"1", ".", "0", ".", "0">>,
                           <<Declared(<<"c">>, <<"*">>), Declared(<<"b">>, <<"*">>), Declared(<<"a">>, <<"*">>)>>,
                           "valid", <<>>)),
     Module(TestedDocument(<<"a">>, <<"2", ".", "0", ".", "0">>, <<>>, "invalid", Passing)),
     Module(TestedDocument(<<"a">>, <<"2", ".", "0", ".", "0">>, <<>>, "broken", Passing)),
     Module(TestedDocument(<<>>, <<"1", ".", "0", ".", "0">>, <<>>, "valid", Passing)),
     Module(TestedDocument(<<"a", " ", "b">>, <<"1", ".", "0", ".", "0">>, <<>>, "valid", Passing)),
     ModuleDir((ConfigPath :> Unparseable) @@ (TemplatePath :> DataFile(1)), {}, {}),
     ModuleDir((ConfigPath :> DataFile(1)) @@ (TemplatePath :> DataFile(1)), {}, {}),
     ModuleDir((ConfigPath :> TestedDocument(<<"a">>, <<"1", ".", "0", ".", "0">>, <<>>, "valid", Passing)), {}, {}),
     ModuleDir((ConfigPath :> TestedDocument(<<"d">>, <<"1", ".", "0", ".", "0">>, <<>>, "valid", Passing))
               @@ (TemplatePath :> DataFile(1)), {LinkPath}, {})}

RegistryPaths == {<<".", "p", "r", "o", "m", "p", "t", "p", "m", "_", "r", "e", "g", "i", "s", "t", "r", "y">>, <<"h", "t", "t", "p", "s", ":", "/", "/", "r">>}

InitNames == {<<>>, <<" ">>}

InitVersions == {<<"0", ".", "1", ".", "0">>, <<" ">>}

InfoNames == {<<"a">>, <<"z">>}

InitCli ==
    /\ EmptyRegistry
    /\ IdleResolver
    /\ IdleSelect /\ IdleSchema /\ IdleSemver
    /\ installers = <<>>
    /\ cwd \in CliDirs
    /\ command = NoCommand

\* The user goes to another module directory between two commands; the
\* record of the last invocation is of the directory it ran on.
ChangeDirectory ==
    /\ Ready
    /\ cwd' \in CliDirs \ {cwd}
    /\ command' = NoCommand
    /\ UNCHANGED <<registryVars, resolverVars, selectVars, schemaVars, semverVars, installers>>

InitCommandStep ==
    \E moduleName \in InitNames, moduleVersion \in InitVersions, quiet \in BOOLEAN :
        InitCommand(moduleName, moduleVersion, quiet)

ValidateCommandStep == \E quiet \in BOOLEAN : ValidateCommand(quiet)

TestCommandStep == \E quiet \in BOOLEAN : TestCommand(quiet)

ListCommandStep == \E registryRaw \in RegistryPaths, quiet \in BOOLEAN : ListCommand(registryRaw, quiet)

InfoCommandStep ==
    \E registryRaw \in RegistryPaths, moduleName \in InfoNames, quiet \in BOOLEAN :
        InfoCommand(registryRaw, moduleName, quiet)

InstallCommandStartStep ==
    \E registryRaw \in RegistryPaths, quiet \in BOOLEAN : InstallCommandStart(registryRaw, quiet)

\* resolve_for_module parses the dependencies of the module it loaded.
ResolveBegin == command.pc = "resolving" /\ Begin

PublishValidateStep ==
    \E registryRaw \in RegistryPaths, quiet \in BOOLEAN : PublishValidate(registryRaw, quiet)

PublishInstallStep == PublishInstall(NoFault)

NextCli ==
    \/ ChangeDirectory
    \/ InitCommandStep
    \/ ValidateCommandStep
    \/ TestCommandStep
    \/ ListCommandStep
    \/ InfoCommandStep
    \/ InstallCommandStartStep
    \/ ResolveBegin
    \/ SelectFails
    \/ VisitVisited
    \/ VisitCycle
    \/ VisitEnter
    \/ VisitReturn
    \/ Return
    \/ Unwind
    \/ InstallCommandFinish
    \/ PublishValidateStep
    \/ PublishTests
    \/ PublishHasVersion
    \/ PublishInstallStep

SpecCli == InitCli /\ [][NextCli]_vars

(***************************************************************************)
(* Properties of publish                                                   *)
(***************************************************************************)
PublishOrder == <<"validate", "tests", "has_version", "install">>

Published == command.operation = "publish" /\ command.pc = "ready"

\* The module directory validates and every one of its test cases passes.
ValidAndPassing ==
    /\ LoadValid(cwd).raised = ""
    /\ RunPromptModuleTests(cwd).raised = ""
    /\ RunPromptModuleTests(cwd).value.failed = 0

\* C14: the steps of a publish are validate, tests, (the conflict check,)
\* install in this order; the registry differs from what it was when the
\* command began only if the install step ran, which it does only after
\* validation passed and every test case passed; a publish that exits 1
\* (validation error) or 2 (failing test) ran no install step and left the
\* registry as it was.
C14_PublishValidatesTestsThenInstalls ==
    command.operation = "publish" =>
        /\ command.steps = SubSeq(PublishOrder, 1, Len(command.steps))
        /\ (command.pc = "install" \/ "install" \in Range(command.steps)) => ValidAndPassing
        /\ disk # command.before => "install" \in Range(command.steps)
        /\ command.exit \in {VALIDATION_EXIT_CODE, TEST_FAILURE_EXIT_CODE} =>
              /\ "install" \notin Range(command.steps)
              /\ disk = command.before

\* A publish on a registry that holds modules stopped at a failing test.
C14_Witness ==
    /\ Published
    /\ command.exit = TEST_FAILURE_EXIT_CODE
    /\ command.steps = <<"validate", "tests">>
    /\ command.before # <<>>
    /\ disk = command.before

\* A publish stopped at validation, and one installed after both passed.
C14_ValidationStops == Published /\ command.exit = VALIDATION_EXIT_CODE /\ command.before # <<>>

C14_InstalledAfterBoth == Published /\ command.steps = PublishOrder /\ disk # command.before

\* The registry changes in the install step of publish only.
RegistryChangedByInstallStepOnly ==
    [][disk' # disk => (command.pc = "install" /\ command.steps = SubSeq(PublishOrder, 1, 3))]_vars

PublishedName == cwd.files[ConfigPath].name

PublishedVersion == cwd.files[ConfigPath].version

\* C15: a publish of a valid, test-passing module to a local registry that
\* holds its (name, version) exits 4 with a PUBLISH_CONFLICT payload whose
\* message says the version already exists, and leaves the registry as it
\* was; a publish of such a module (safe segments, no symbolic link) whose
\* identity is not in the registry exits 0 and leaves N/V with its manifest.
C15_RepublishConflicts ==
    (Published /\ command.steps # <<>> /\ ValidAndPassing) =>
        IF HasDir(command.before, PublishedName, PublishedVersion)
        THEN /\ command.exit = PUBLISH_CONFLICT_EXIT_CODE
             /\ Len(command.emitted) = 1
             /\ ~command.emitted[1].ok
             /\ command.emitted[1].error.code = "PUBLISH_CONFLICT"
             /\ command.emitted[1].error.message = "Published version already exists"
             /\ disk = command.before
        ELSE (ValidateSegment(PublishedName) /\ ValidateSegment(PublishedVersion) /\ cwd.links = {}) =>
                /\ command.exit = SUCCESS_EXIT_CODE
                /\ HasDir(disk, PublishedName, PublishedVersion)
                /\ FilesMatchManifest(disk[PublishedName][PublishedVersion], PublishedName, PublishedVersion)

C15_Witness ==
    /\ Published
    /\ ValidAndPassing
    /\ command.exit = PUBLISH_CONFLICT_EXIT_CODE
    /\ HasDir(command.before, PublishedName, PublishedVersion)
    /\ disk = command.before

C15_FirstPublishSucceeds ==
    /\ Published
    /\ command.exit = SUCCESS_EXIT_CODE
    /\ ~HasDir(command.before, PublishedName, PublishedVersion)
    /\ ManifestPath \in DOMAIN disk[PublishedName][PublishedVersion].files

(***************************************************************************)
(* Properties of the command outcomes                                      *)
(***************************************************************************)
\* A command ran to its exit.
Exited == command.operation # "none" /\ command.pc = "ready"

\* The canonical table: error code -> exit code.
CanonicalExit ==
    [code \in {"VALIDATION_ERROR", "TEST_FAILURE", "DEPENDENCY_ERROR", "PUBLISH_CONFLICT",
               "INTERNAL_ERROR"} |->
        CASE code = "VALIDATION_ERROR" -> 1
          [] code = "TEST_FAILURE" -> 2
          [] code = "DEPENDENCY_ERROR" -> 3
          [] code = "PUBLISH_CONFLICT" -> 4
          [] OTHER -> 5]

\* C16: every command exits with a code from 0 to 5; a payload it emitted
\* has ok true exactly when the exit code is 0, and an error payload carries
\* the error code that the canonical table pairs with the exit code; the
\* only command that emits nothing is a quiet one that exits 0.
C16_ExitAgreesWithPayload ==
    Exited =>
        /\ command.exit \in 0..5
        /\ command.emitted = <<>> => (command.exit = 0 /\ command.quiet)
        /\ \A i \in DOMAIN command.emitted :
              /\ command.emitted[i].ok <=> command.exit = 0
              /\ ~command.emitted[i].ok =>
                    /\ command.emitted[i].error.code \in DOMAIN CanonicalExit
                    /\ CanonicalExit[command.emitted[i].error.code] = command.exit

\* Every row of the table is produced, the internal error included.
C16_Witness ==
    /\ Exited
    /\ command.exit = INTERNAL_EXIT_CODE
    /\ command.emitted # <<>>
    /\ command.emitted[1].error.code = "INTERNAL_ERROR"

C16_PublishInstallFails ==
    /\ Exited
    /\ command.operation = "publish"
    /\ command.exit = DEPENDENCY_EXIT_CODE
    /\ command.steps = PublishOrder

WellShaped(payload, operation) ==
    /\ {"ok", "operation"} \subseteq DOMAIN payload
    /\ payload.ok \in BOOLEAN
    /\ payload.operation = operation
    /\ IF payload.ok THEN "data" \in DOMAIN payload
       ELSE /\ "error" \in DOMAIN payload
            /\ DOMAIN payload.error = {"code", "message", "hint", "path"}

\* C17: every command that is not silenced by --quiet emits exactly one
\* payload, with ok, operation (the command's name) and data when ok is
\* true, error with code, message, hint and path when it is false.
C17_OnePayloadWithOperation ==
    (Exited /\ ~(command.quiet /\ command.exit = 0)) =>
        /\ Len(command.emitted) = 1
        /\ WellShaped(command.emitted[1], command.operation)

\* What holds: the payloads of every command but validate have the shape,
\* and those of validate have it without the operation key.
PayloadShapeButValidate ==
    (Exited /\ ~(command.quiet /\ command.exit = 0)) =>
        /\ Len(command.emitted) = 1
        /\ IF command.operation = "validate"
           THEN /\ "operation" \notin DOMAIN command.emitted[1]
                /\ WellShaped([operation |-> "validate"] @@ command.emitted[1], "validate")
           ELSE WellShaped(command.emitted[1], command.operation)

\* validate emitted a payload without the operation key.
ValidatePayloadWithoutOperation ==
    /\ Exited
    /\ command.operation = "validate"
    /\ command.emitted # <<>>
    /\ "operation" \notin DOMAIN command.emitted[1]
(***************************************************************************)
(* Read-only operations: validate, the install command and the registry's  *)
(* reads, run by one user against a registry that installs fill            *)
(***************************************************************************)
ReadDirs ==
    {Module(TestedDocument(<<"a">>, <<"1", ".", "0", ".", "0">>, <<>>, "valid", Passing)),
     Module(TestedDocument(<<"b">>, <<"1", ".", "0", ".", "0">>, <<Declared(<<"a">>, <<"^", "1", ".", "0", ".", "0">>)>>, "valid", <<>>)),
     Module(TestedDocument(<<"c">>, <<"1", ".", "0", ".", "0">>,
                           <<Declared(<<"c">>, <<"*">>), Declared(<<"b">>, <<"*">>), Declared(<<"a">>, <<"*">>)>>,
                           "valid", <<>>)),
     Module(TestedDocument(<<"a">>, <<"2", ".", "0", ".", "0">>, <<>>, "invalid", Passing)),
     ModuleDir((ConfigPath :> Unparseable) @@ (TemplatePath :> DataFile(1)), {}, {})}

ReadNames == {<<"a">>, <<"c">>, <<"a", "/", "b">>}

ReadVersions == {<<"1", ".", "0", ".", "0">>, <<"2", ".", "0", ".", "0">>}

InitRead ==
    /\ EmptyRegistry
    /\ IdleResolver
    /\ IdleSelect /\ IdleSchema /\ IdleSemver
    /\ installers = <<>>
    /\ cwd \in ReadDirs
    /\ command = NoCommand

ReadChangeDirectory ==
    /\ Ready
    /\ cwd' \in ReadDirs \ {cwd}
    /\ command' = NoCommand
    /\ UNCHANGED <<registryVars, resolverVars, selectVars, schemaVars, semverVars, installers>>

\* registry.install(<the module directory>): the writer between the reads
ReadInstallStep ==
    /\ Ready
    /\ DoInstall(cwd, NoFault)
    /\ UNCHANGED <<resolverVars, selectVars, schemaVars, semverVars, processVars>>

ReadLookupStep ==
    /\ Ready
    /\ \E name \in ReadNames, version \in ReadVersions : DoLookup(name, version)
    /\ UNCHANGED <<resolverVars, selectVars, schemaVars, semverVars, processVars>>

ReadListByNameStep ==
    /\ Ready
    /\ \E name \in ReadNames : DoListByName(name)
    /\ UNCHANGED <<resolverVars, selectVars, schemaVars, semverVars, processVars>>

ReadListInstalledStep ==
    /\ Ready
    /\ DoListInstalled
    /\ UNCHANGED <<resolverVars, selectVars, schemaVars, semverVars, processVars>>

ReadHasVersionStep ==
    /\ Ready
    /\ \E name \in ReadNames, version \in ReadVersions : DoHasVersion(name, version)
    /\ UNCHANGED <<resolverVars, selectVars, schemaVars, semverVars, processVars>>

NextRead ==
    \/ ReadChangeDirectory
    \/ ReadInstallStep
    \/ ReadLookupStep
    \/ ReadListByNameStep
    \/ ReadListInstalledStep
    \/ ReadHasVersionStep
    \/ ValidateCommandStep
    \/ InstallCommandStartStep
    \/ ResolveBegin
    \/ SelectFails
    \/ VisitVisited
    \/ VisitCycle
    \/ VisitEnter
    \/ VisitReturn
    \/ Return
    \/ Unwind
    \/ InstallCommandFinish

SpecRead == InitRead /\ [][NextRead]_vars
(***************************************************************************)
(* C18: read-only operations leave the filesystem as it was                *)
(***************************************************************************)
ReadCalls == {"lookup", "list_by_name", "list_installed", "has_version"}

ReadCommands == {"validate", "install"}

\* A registry read returned or raised in this step.
RegistryReadStep == op' # op /\ op'.call \in ReadCalls

\* validate or the install command started, went on or exited in this step.
ReadCommandStep ==
    \/ command' # command /\ command'.operation \in ReadCommands
    \/ command.pc = "resolving"

\* validate ran again on the module directory it ran on last.
ValidateRepeated ==
    /\ command.operation = "validate"
    /\ command'.operation = "validate"
    /\ command.pc = "ready"
    /\ cwd' = cwd

\* C18: validate, the install command (resolve_for_module), lookup,
\* list_by_name, list_installed and has_version create, modify and remove
\* nothing in the registry or in the module directory, whether they succeed
\* or fail, and validate repeated on the same module exits with the same code
\* and prints the same payload.
C18_ReadOnlyOperationsChangeNothing ==
    [][/\ (RegistryReadStep \/ ReadCommandStep) => disk' = disk /\ cwd' = cwd
       /\ ValidateRepeated =>
             /\ command'.exit = command.exit
             /\ command'.quiet = command.quiet => command'.emitted = command.emitted]_vars

\* The install command resolved dependencies out of a registry that holds
\* modules, after a registry read that returned some, and the registry is as
\* it was when the command started.
C18_Witness ==
    /\ Exited
    /\ command.operation = "install"
    /\ command.exit = SUCCESS_EXIT_CODE
    /\ ~command.quiet
    /\ command.emitted[1].data.count > 0
    /\ op.call \in ReadCalls
    /\ op.ok
    /\ op.entries # <<>>
    /\ disk = command.before
    /\ disk # <<>>

\* The install command failed over a registry that holds modules.
C18_InstallCommandFailed ==
    /\ Exited
    /\ command.operation = "install"
    /\ command.exit = DEPENDENCY_EXIT_CODE
    /\ disk # <<>>

\* validate refused a module while the registry holds modules, and accepted one.
C18_ValidateRefused ==
    /\ Exited
    /\ command.operation = "validate"
    /\ command.exit = VALIDATION_EXIT_CODE
    /\ disk # <<>>

\* A registry read raised over a registry that holds modules.
C18_ReadRaised == op.call \in ReadCalls /\ ~op.ok /\ disk # <<>>
(***************************************************************************)
(* semver.py called on version strings: parse_version, str and             *)
(* compare_versions                                                        *)
(***************************************************************************)
\* str(n) of a non-negative int
RECURSIVE IntStr(_)
IntStr(n) == IF n < 10 THEN <<Digits[n + 1]>> ELSE IntStr(n \div 10) \o <<Digits[(n % 10) + 1]>>

\* A rendering that leaves the build metadata out (a variant of __str__).
VersionStrWithoutBuild(v) ==
    IntStr(v.major) \o <<".">> \o IntStr(v.minor) \o <<".">> \o IntStr(v.patch)
        \o (IF v.prerelease # <<>> THEN <<"-">> \o Join(v.prerelease, <<".">>) ELSE <<>>)

\* SemanticVersion.__str__
VersionStr(v) ==
    IntStr(v.major) \o <<".">> \o IntStr(v.minor) \o <<".">> \o IntStr(v.patch)
        \o (IF v.prerelease # <<>> THEN <<"-">> \o Join(v.prerelease, <<".">>) ELSE <<>>)
        \o (IF v.build # <<>> THEN <<"+">> \o Join(v.build, <<".">>) ELSE <<>>)

\* compare_versions(left, right) on two strings: _coerce_version raises
\* SemVerError for either one, else compare_to answers.
CompareTexts(left, right) ==
    LET Coerced(l, r) ==
            IF ~l.ok \/ ~r.ok THEN [ok |-> FALSE, value |-> 0]
            ELSE [ok |-> TRUE, value |-> CompareVersions(l.v, r.v)]
    IN  Coerced(ParseVersion(left), ParseVersion(right))

\* The version strings of the tests, with padded, unparseable, numeric and
\* mixed-case prereleases and build metadata.
SemverTexts ==
    {<<"1", ".", "0", ".", "0", "-", "a", "l", "p", "h", "a">>, <<"1", ".", "0", ".", "0", "-", "a", "l", "p", "h", "a", ".", "1">>, <<"1", ".", "0", ".", "0", "-", "a", "l", "p", "h", "a", ".", "b", "e", "t", "a">>, <<"1", ".", "0", ".", "0", "-", "b", "e", "t", "a", ".", "2">>,
     <<"1", ".", "0", ".", "0", "-", "b", "e", "t", "a", ".", "1", "1">>, <<"1", ".", "0", ".", "0", "-", "B", "e", "t", "a">>, <<"1", ".", "0", ".", "0", "-", "1", "1">>, <<"1", ".", "0", ".", "0", "-", "2", "+", "x">>, <<"1", ".", "0", ".", "0">>, <<"1", ".", "0", ".", "0", "+", "a", "b", "c">>,
     <<"1", ".", "0", ".", "0", "+", "d", "e", "f", ".", "0", "-", "1">>, <<"1", ".", "1", "0", ".", "0">>, <<"1", ".", "2", ".", "0">>, <<"1", "0", ".", "0", ".", "0", "-", "r", "c", "-", "1", ".", "0", "+", "b", ".", "0", "5">>, <<" ">> \o <<"1", ".", "2", ".", "3", "-", "a", "l", "p", "h", "a", ".", "1", "+", "b", "u", "i", "l", "d", ".", "5">> \o <<"\n">>,
     <<"0", "1", ".", "2", ".", "3">>, <<"1", ".", "0", ".", "0", "-", "a", "l", "p", "h", "a", ".", "0", "1">>, <<"1", ".", "2">>}

InitSemver ==
    /\ EmptyRegistry
    /\ IdleResolver
    /\ IdleSelect /\ IdleSchema
    /\ IdleProcesses
    /\ given \in SemverTexts \X SemverTexts \X SemverTexts
    /\ semver = NoSemverCall

\* parse_version(text), str of the result, and parse_version of that
RoundTripStep ==
    /\ \E i \in 1..3 :
          \E parsed \in {ParseVersion(given[i])} :
             \E rendered \in {IF parsed.ok THEN VersionStr(parsed.v) ELSE <<>>} :
                semver' = [call |-> "round_trip", text |-> given[i], parsed |-> parsed,
                           rendered |-> rendered,
                           reparsed |-> IF parsed.ok THEN ParseVersion(rendered) ELSE SemVerError]
    /\ UNCHANGED <<given, registryVars, resolverVars, selectVars, schemaVars, processVars>>

\* compare_versions on each ordered pair of the three strings
ComparePairsStep ==
    /\ semver' = [call |-> "compare",
                  parsed |-> [i \in 1..3 |-> ParseVersion(given[i])],
                  compared |-> [i \in 1..3 |-> [j \in 1..3 |-> CompareTexts(given[i], given[j])]]]
    /\ UNCHANGED <<given, registryVars, resolverVars, selectVars, schemaVars, processVars>>

NextSemver ==
    \/ RoundTripStep
    \/ ComparePairsStep

SpecSemver == InitSemver /\ [][NextSemver]_vars

(***************************************************************************)
(* C19: parsing the rendering of a parsed version gives the version back   *)
(***************************************************************************)
\* C19: for every string parse_version accepts, parse_version of str of the
\* parsed version succeeds and equals the parsed version in core, prerelease
\* and build.
C19_ParseStrRoundTrip ==
    semver.call = "round_trip" /\ semver.parsed.ok =>
        /\ semver.reparsed.ok
        /\ semver.reparsed.v = semver.parsed.v

\* A padded string with prerelease and build was parsed, rendered to a
\* different string, and parsed back.
C19_Witness ==
    /\ semver.call = "round_trip"
    /\ semver.parsed.ok
    /\ semver.parsed.v.prerelease # <<>>
    /\ semver.parsed.v.build # <<>>
    /\ semver.rendered # semver.text
    /\ semver.reparsed.ok

\* A multi-digit core number and a build identifier with a leading zero went round.
C19_WitnessNumbers ==
    /\ semver.call = "round_trip"
    /\ semver.parsed.ok
    /\ semver.parsed.v.major = 10
    /\ semver.parsed.v.build = <<<<"b">>, <<"0", "5">>>>
    /\ semver.rendered = semver.text

\* parse_version refused a string, so nothing was rendered.
C19_Refused == semver.call = "round_trip" /\ ~semver.parsed.ok
(***************************************************************************)
(* C20: compare_versions orders versions, build metadata aside             *)
(***************************************************************************)
SemverNumeric(x) == IsDigits(x)

\* One prerelease identifier is smaller than another: numeric by value,
\* numeric before non-numeric, non-numeric by ASCII order.
IdentifierLess(x, y) ==
    IF SemverNumeric(x) /\ SemverNumeric(y) THEN ToInt(x) < ToInt(y)
    ELSE IF SemverNumeric(x) THEN TRUE
    ELSE IF SemverNumeric(y) THEN FALSE
    ELSE StrLess(x, y)

\* The first identifier that differs decides; with all shared identifiers
\* equal the shorter list is smaller.
PrereleaseLess(l, r) ==
    \/ \E k \in 1..Min(Len(l), Len(r)) :
          /\ \A j \in 1..(k - 1) : l[j] = r[j]
          /\ l[k] # r[k]
          /\ IdentifierLess(l[k], r[k])
    \/ /\ Len(l) < Len(r)
       /\ \A j \in 1..Len(l) : l[j] = r[j]

Core(v) == <<v.major, v.minor, v.patch>>

\* Precedence as the rules state it.
VersionLess(a, b) ==
    \/ Core(a)[1] < Core(b)[1]
    \/ Core(a)[1] = Core(b)[1] /\ Core(a)[2] < Core(b)[2]
    \/ Core(a)[1] = Core(b)[1] /\ Core(a)[2] = Core(b)[2] /\ Core(a)[3] < Core(b)[3]
    \/ /\ Core(a) = Core(b)
       /\ \/ a.prerelease # <<>> /\ b.prerelease = <<>>
          \/ a.prerelease # <<>> /\ b.prerelease # <<>> /\ PrereleaseLess(a.prerelease, b.prerelease)

\* compare_versions answered for all pairs of the three strings.
Compared == semver.call = "compare" /\ \A i \in 1..3 : semver.parsed[i].ok

\* C20: compare_versions returns -1, 0 or 1 with compare(a,b) = -compare(b,a),
\* is transitive, returns 0 exactly when core and prerelease are equal
\* whatever the build metadata, and returns -1 exactly when the first version
\* precedes the second by the rules: cores as integer triples, with equal
\* cores a prerelease before none, prerelease identifiers pairwise (numeric by
\* value, numeric before non-numeric, non-numeric in ASCII order), the shorter
\* list first when all shared identifiers are equal.
C20_CompareIsTotalOrder ==
    Compared =>
        \A i, j \in 1..3 :
            LET c(x, y) == semver.compared[x][y].value
                v(x) == semver.parsed[x].v
            IN  /\ semver.compared[i][j].ok
                /\ c(i, j) \in {-1, 0, 1}
                /\ c(i, j) = -c(j, i)
                /\ \A k \in 1..3 :
                      /\ c(i, j) <= 0 /\ c(j, k) <= 0 => c(i, k) <= 0
                      /\ c(i, j) <= 0 /\ c(j, k) < 0 => c(i, k) < 0
                      /\ c(i, j) < 0 /\ c(j, k) <= 0 => c(i, k) < 0
                /\ c(i, j) = 0 <=> Core(v(i)) = Core(v(j)) /\ v(i).prerelease = v(j).prerelease
                /\ c(i, j) = -1 <=> VersionLess(v(i), v(j))

\* Three versions of one core in a chain decided by a numeric identifier of
\* two digits, with a pair that differs in build metadata only elsewhere.
C20_Witness ==
    /\ Compared
    /\ semver.compared[1][2].value = -1
    /\ semver.compared[2][3].value = -1
    /\ semver.compared[1][3].value = -1
    /\ Core(semver.parsed[1].v) = Core(semver.parsed[3].v)
    /\ semver.parsed[1].v.prerelease = <<<<"b", "e", "t", "a">>, <<"2">>>>
    /\ semver.parsed[2].v.prerelease = <<<<"b", "e", "t", "a">>, <<"1", "1">>>>
    /\ semver.parsed[3].v.prerelease = <<>>

\* Two versions that differ in build metadata only compare equal.
C20_BuildIgnored ==
    /\ Compared
    /\ semver.compared[1][2].value = 0
    /\ semver.parsed[1].v.build # semver.parsed[2].v.build

\* A numeric identifier is before a non-numeric one, upper case before lower
\* case, and a shorter list before its extension.
C20_MixedIdentifiers ==
    /\ Compared
    /\ semver.parsed[1].v.prerelease = <<<<"1", "1">>>>
    /\ semver.parsed[2].v.prerelease = <<<<"B", "e", "t", "a">>>>
    /\ semver.parsed[3].v.prerelease = <<<<"a", "l", "p", "h", "a">>>>
    /\ semver.compared[1][2].value = -1
    /\ semver.compared[2][3].value = -1

\* compare_versions raised for a string parse_version refuses.
C20_CompareRaised == semver.call = "compare" /\ \E i, j \in 1..3 : ~semver.compared[i][j].ok
(***************************************************************************)
(* semver.py called on a version and a range: satisfies_version_range on   *)
(* the caret, tilde and bare forms of a base, and on what they stand for   *)
(***************************************************************************)
\* satisfies_version_range(version, expression) on two strings:
\* parse_version_range raises first, then _coerce_version in matches.
SatisfiesTexts(version, expression) ==
    LET Matched(range, candidate) ==
            IF ~range.ok \/ ~candidate.ok THEN [ok |-> FALSE, value |-> FALSE]
            ELSE [ok |-> TRUE, value |-> RangeMatches(range, candidate.v)]
    IN  Matched(ParseVersionRange(expression), ParseVersion(version))

\* Candidate versions around the bounds, with prereleases and build metadata.
RangeCandidates ==
    {<<"0", ".", "0", ".", "0">>, <<"0", ".", "0", ".", "3">>, <<"0", ".", "0", ".", "4">>, <<"0", ".", "2", ".", "3">>, <<"0", ".", "2", ".", "9">>, <<"0", ".", "3", ".", "0">>, <<"0", ".", "3", ".", "0", "-", "r", "c", ".", "1">>, <<"1", ".", "0", ".", "0">>,
     <<"1", ".", "2", ".", "2">>, <<"1", ".", "2", ".", "3">>, <<"1", ".", "2", ".", "3", "-", "a", "l", "p", "h", "a">>, <<"1", ".", "2", ".", "4", "+", "b">>, <<"1", ".", "3", ".", "0">>, <<"1", ".", "9", ".", "9">>, <<"2", ".", "0", ".", "0">>,
     <<"2", ".", "0", ".", "0", "-", "a", "l", "p", "h", "a">>, <<"1", ".", "2">>}

\* Bases with major above zero, major zero, and major and minor zero.
RangeBases ==
    {<<"1", ".", "2", ".", "3">>, <<"0", ".", "2", ".", "3">>, <<"0", ".", "0", ".", "3">>, <<"0", ".", "0", ".", "0">>, <<"1", ".", "0", ".", "0">>, <<"0", ".", "3", ".", "0">>, <<"1", ".", "9", ".", "9">>, <<"1", ".", "2", ".", "3", "-", "a", "l", "p", "h", "a">>}

\* "X.Y.Z" of three numbers
CoreText(x, y, z) == IntStr(x) \o <<".">> \o IntStr(y) \o <<".">> \o IntStr(z)

\* The short form of a base and the comparators it stands for, as text.
ShortForm(form, base) ==
    IF form = "caret" THEN <<"^">> \o base
    ELSE IF form = "tilde" THEN <<"~">> \o base
    ELSE base

LongForm(form, base) ==
    LET Bound(b) == IF b.major > 0 THEN CoreText(b.major + 1, 0, 0)
                    ELSE IF b.minor > 0 THEN CoreText(0, b.minor + 1, 0)
                    ELSE CoreText(0, 0, b.patch + 1)
        NextMinor(b) == CoreText(b.major, b.minor + 1, 0)
    IN  IF form = "caret" THEN <<">", "=">> \o base \o <<" ", "<">> \o Bound(ParseVersion(base).v)
        ELSE IF form = "tilde" THEN <<">", "=">> \o base \o <<" ", "<">> \o NextMinor(ParseVersion(base).v)
        ELSE <<"=">> \o base

InitRange ==
    /\ EmptyRegistry
    /\ IdleResolver
    /\ IdleSelect /\ IdleSchema
    /\ IdleProcesses
    /\ given \in RangeCandidates \X RangeBases
    /\ semver = NoSemverCall

\* satisfies_version_range(version, <short form>) and
\* satisfies_version_range(version, <long form>)
Satisfies(form) ==
    /\ semver' = [call |-> "satisfies", form |-> form,
                  short |-> ShortForm(form, given[2]),
                  long |-> LongForm(form, given[2]),
                  shortAnswer |-> SatisfiesTexts(given[1], ShortForm(form, given[2])),
                  longAnswer |-> SatisfiesTexts(given[1], LongForm(form, given[2]))]
    /\ UNCHANGED <<given, registryVars, resolverVars, selectVars, schemaVars, processVars>>

SatisfiesCaretStep == Satisfies("caret")

SatisfiesTildeStep == Satisfies("tilde")

SatisfiesBareStep == Satisfies("bare")

NextRange ==
    \/ SatisfiesCaretStep
    \/ SatisfiesTildeStep
    \/ SatisfiesBareStep

SpecRange == InitRange /\ [][NextRange]_vars

(***************************************************************************)
(* C21: a caret, a tilde and a bare version match what they stand for      *)
(***************************************************************************)
\* C21: for every version v and base X.Y.Z, satisfies(v, "^X.Y.Z") equals
\* satisfies(v, ">=X.Y.Z <U") with U the next major if X > 0, else the next
\* minor if Y > 0, else the next patch; satisfies(v, "~X.Y.Z") equals
\* satisfies(v, ">=X.Y.Z <X.(Y+1).0"); and "X.Y.Z" equals "=X.Y.Z": both
\* raise or both give the same answer.
C21_EncodingsAgree ==
    semver.call = "satisfies" => semver.shortAnswer = semver.longAnswer

\* A caret of a base with major zero let a version in and its long form did too.
C21_Witness ==
    /\ semver.call = "satisfies"
    /\ semver.form = "caret"
    /\ semver.short = <<"^", "0", ".", "2", ".", "3">>
    /\ semver.long = <<">", "=", "0", ".", "2", ".", "3", " ", "<", "0", ".", "3", ".", "0">>
    /\ semver.shortAnswer.ok
    /\ semver.shortAnswer.value
    /\ semver.longAnswer.value

\* A caret of a base with major and minor zero kept the next patch out.
C21_CaretPatchOut ==
    /\ semver.call = "satisfies"
    /\ semver.short = <<"^", "0", ".", "0", ".", "3">>
    /\ semver.long = <<">", "=", "0", ".", "0", ".", "3", " ", "<", "0", ".", "0", ".", "4">>
    /\ given[1] = <<"0", ".", "0", ".", "4">>
    /\ semver.shortAnswer.ok
    /\ ~semver.shortAnswer.value

\* A tilde kept the next minor out and a bare version let only itself in.
C21_TildeOut ==
    /\ semver.call = "satisfies"
    /\ semver.short = <<"~", "1", ".", "2", ".", "3">>
    /\ semver.long = <<">", "=", "1", ".", "2", ".", "3", " ", "<", "1", ".", "3", ".", "0">>
    /\ given[1] = <<"1", ".", "3", ".", "0">>
    /\ semver.shortAnswer.ok
    /\ ~semver.shortAnswer.value

C21_BareIn ==
    /\ semver.call = "satisfies"
    /\ semver.form = "bare"
    /\ semver.long = <<"=", "1", ".", "2", ".", "3">>
    /\ semver.shortAnswer.ok
    /\ semver.shortAnswer.value
(***************************************************************************)
(* schema_and_validator.py on the parsed document                          *)
(*                                                                         *)
(* A YAML value has a shape: absent (the key is not there), null, text,    *)
(* number, list or mapping. Values at the same place of two documents have *)
(* the same fields, those its shape does not use being empty.              *)
(***************************************************************************)
Scalar(shape, text) == [shape |-> shape, text |-> text]

Absent == Scalar("absent", <<>>)

Null == Scalar("null", <<>>)

Text(s) == Scalar("text", s)

Number(s) == Scalar("number", s)

\* A value that is a list when its shape is "list"; items is empty otherwise.
Listing(shape, items) == [shape |-> shape, items |-> items]

ModuleBlock(shape, name, version, description) ==
    [shape |-> shape, name |-> name, version |-> version, description |-> description]

PromptBlock(shape, template, placeholders) ==
    [shape |-> shape, template |-> template, placeholders |-> placeholders]

InterfaceInput(shape, name, type, description, required) ==
    [shape |-> shape, name |-> name, type |-> type, description |-> description,
     required |-> required]

InterfaceOutput(shape, type, description) ==
    [shape |-> shape, type |-> type, description |-> description]

InterfaceBlock(shape, intent, inputs, outputs) ==
    [shape |-> shape, intent |-> intent, inputs |-> inputs, outputs |-> outputs]

\* PromptModule(raw): module, prompt, interface and tests of the mapping
RawModule(module, prompt, interface, tests) ==
    [kind |-> "module", module |-> module, prompt |-> prompt, interface |-> interface,
     tests |-> tests]

\* `field in mapping`
Has(value) == value.shape # "absent"

IsMapping(value) == value.shape = "mapping"

\* The first result that raised, else the last one.
RECURSIVE FirstRaised(_)
FirstRaised(results) ==
    IF Len(results) = 1 \/ results[1].raised # "" THEN results[1] ELSE FirstRaised(Tail(results))

\* _validate_top_level
ValidateTopLevel(module) ==
    IF ~Has(module.module) \/ ~Has(module.prompt) \/ ~Has(module.interface)
    THEN Raised("ValidationError", "Missing required top-level fields")
    ELSE Returned(<<>>)

\* _validate_module_metadata
ValidateModuleMetadata(meta) ==
    IF ~IsMapping(meta) THEN Raised("ValidationError", "module must be a mapping")
    ELSE IF ~Has(meta.name) THEN Raised("ValidationError", "module.name is required")
    ELSE IF ~Has(meta.version) THEN Raised("ValidationError", "module.version is required")
    ELSE IF ~Has(meta.description) THEN Raised("ValidationError", "module.description is required")
    ELSE IF meta.name.shape # "text" \/ meta.name.text = <<>>
    THEN Raised("ValidationError", "module.name must be a non-empty string")
    ELSE IF meta.version.shape # "text"
    THEN Raised("ValidationError", "module.version must be a string")
    ELSE Returned(<<>>)

\* {inp.get("name") for inp in interface.get("inputs", []) if isinstance(inp, dict)}:
\* interface.get raises AttributeError unless interface is a mapping, a null
\* or a number cannot be iterated (TypeError), a text gives its characters and
\* a mapping its keys, none of which is a mapping; a mapping without name
\* gives None.
DeclaredInputs(interface) ==
    IF ~IsMapping(interface)
    THEN Raised("AttributeError", "object has no attribute 'get'")
    ELSE IF interface.inputs.shape \in {"null", "number"}
    THEN Raised("TypeError", "object is not iterable")
    ELSE IF interface.inputs.shape # "list" THEN Returned({})
    ELSE Returned({IF Has(interface.inputs.items[i].name)
                   THEN interface.inputs.items[i].name ELSE Null :
                      i \in {j \in DOMAIN interface.inputs.items :
                                IsMapping(interface.inputs.items[j])}})

\* ', '.join(sorted(undeclared)) in the message: sorted raises TypeError for
\* values of different types and join for a value that is not a str. The
\* joined names are the value of the error.
UndeclaredReport(undeclared) ==
    IF undeclared = {} THEN Returned(<<>>)
    ELSE IF \E u \in undeclared : u.shape # "text"
    THEN Raised("TypeError", "expected str instance")
    ELSE [raised |-> "ValidationError", message |-> "Undeclared placeholders used in template",
          value |-> Join(SortStrs({u.text : u \in undeclared}), <<",", " ">>)]

\* Every placeholder counts as declared (a variant of _validate_prompt_block).
ValidatePromptBlockLenient(prompt, interface) ==
    IF ~IsMapping(prompt) THEN Raised("ValidationError", "prompt must be a mapping")
    ELSE IF ~Has(prompt.template) THEN Raised("ValidationError", "prompt.template is required")
    ELSE IF prompt.placeholders.shape # "list"
    THEN Raised("ValidationError", "prompt.placeholders must be a list")
    ELSE Returned(<<>>)

\* _validate_prompt_block: set(prompt["placeholders"]) raises TypeError for a
\* placeholder that is a list or a mapping.
ValidatePromptBlock(prompt, interface) ==
    LET Against(declared) ==
            IF declared.raised # "" THEN declared
            ELSE IF \E i \in DOMAIN prompt.placeholders.items :
                       prompt.placeholders.items[i].shape \in {"list", "mapping"}
            THEN Raised("TypeError", "unhashable type")
            ELSE UndeclaredReport({prompt.placeholders.items[i] :
                                      i \in DOMAIN prompt.placeholders.items} \ declared.value)
    IN  IF ~IsMapping(prompt) THEN Raised("ValidationError", "prompt must be a mapping")
        ELSE IF ~Has(prompt.template) THEN Raised("ValidationError", "prompt.template is required")
        ELSE IF prompt.placeholders.shape # "list"
        THEN Raised("ValidationError", "prompt.placeholders must be a list")
        ELSE Against(DeclaredInputs(interface))

\* _validate_interface_input
ValidateInterfaceInput(inp) ==
    IF ~IsMapping(inp) THEN Raised("ValidationError", "interface.inputs entries must be mappings")
    ELSE IF ~Has(inp.name) THEN Raised("ValidationError", "interface.inputs.name is required")
    ELSE IF ~Has(inp.type) THEN Raised("ValidationError", "interface.inputs.type is required")
    ELSE IF ~Has(inp.description)
    THEN Raised("ValidationError", "interface.inputs.description is required")
    ELSE IF ~Has(inp.required) THEN Raised("ValidationError", "interface.inputs.required is required")
    ELSE Returned(<<>>)

\* _validate_interface_output
ValidateInterfaceOutput(out) ==
    IF ~IsMapping(out) THEN Raised("ValidationError", "interface.outputs entries must be mappings")
    ELSE IF ~Has(out.type) THEN Raised("ValidationError", "interface.outputs.type is required")
    ELSE IF ~Has(out.description)
    THEN Raised("ValidationError", "interface.outputs.description is required")
    ELSE Returned(<<>>)

\* _validate_interface
ValidateInterface(interface) ==
    IF ~IsMapping(interface) THEN Raised("ValidationError", "interface must be a mapping")
    ELSE IF ~Has(interface.intent) THEN Raised("ValidationError", "interface.intent is required")
    ELSE IF interface.inputs.shape # "list"
    THEN Raised("ValidationError", "interface.inputs must be a list")
    ELSE IF interface.outputs.shape # "list"
    THEN Raised("ValidationError", "interface.outputs must be a list")
    ELSE FirstRaised([i \in DOMAIN interface.inputs.items |->
                         ValidateInterfaceInput(interface.inputs.items[i])]
                     \o [i \in DOMAIN interface.outputs.items |->
                            ValidateInterfaceOutput(interface.outputs.items[i])]
                     \o <<Returned(<<>>)>>)

\* validate_prompt_module on the parsed document
ValidateRawModule(module) ==
    FirstRaised(<<ValidateTopLevel(module),
                  ValidateModuleMetadata(module.module),
                  ValidatePromptBlock(module.prompt, module.interface),
                  ValidateInterface(module.interface)>>)
(***************************************************************************)
(* Parsed documents: the module of the tests with its placeholders and     *)
(* inputs varied, and each with one thing wrong                            *)
(***************************************************************************)
Flag == Scalar("bool", <<>>)

InputNamed(name) == InterfaceInput("mapping", Text(name), Text(<<"t">>), Text(<<"d">>), Flag)

SummaryOutput == InterfaceOutput("mapping", Text(<<"s">>), Text(<<"d">>))

NoInput == InterfaceInput("null", Absent, Absent, Absent, Absent)

NoOutput == InterfaceOutput("text", Absent, Absent)

PlaceholderLists ==
    {<<>>, <<<<"a">>>>, <<<<"b">>, <<"a">>>>, <<<<"c">>, <<"a">>, <<"c">>>>, <<<<"c">>, <<"b">>, <<"Z">>>>}

InputNameLists == {<<>>, <<<<"a">>>>, <<<<"a">>, <<"b">>>>, <<<<"b">>, <<"Z">>, <<"a">>>>}

\* A structurally complete document with these placeholders and inputs.
CompleteModule(placeholders, inputNames) ==
    RawModule(ModuleBlock("mapping", Text(<<"m">>), Text(<<"1", ".", "0", ".", "0">>), Text(<<"d">>)),
              PromptBlock("mapping", Text(<<"t", "e", "m", "p", "l", "a", "t", "e", ".", "p", "r", "o", "m", "p", "t">>),
                          Listing("list", [i \in DOMAIN placeholders |-> Text(placeholders[i])])),
              InterfaceBlock("mapping", Text(<<"i">>),
                             Listing("list", [i \in DOMAIN inputNames |-> InputNamed(inputNames[i])]),
                             Listing("list", <<SummaryOutput>>)),
              <<>>)

CompleteModules ==
    {CompleteModule(p, n) : p \in PlaceholderLists, n \in InputNameLists}

NoList(shape) == Listing(shape, <<>>)

\* The document with its module block, prompt block or interface block wrong.
WrongModule(d) ==
    {[d EXCEPT !.module = ModuleBlock(shape, Absent, Absent, Absent)] :
        shape \in {"absent", "null", "text", "list"}}
    \cup {[d EXCEPT !.module.name = v] : v \in {Absent, Text(<<>>), Number(<<"7">>)}}
    \cup {[d EXCEPT !.module.version = v] : v \in {Absent, Number(<<"1">>)}}
    \cup {[d EXCEPT !.module.description = Absent]}

WrongPrompt(d) ==
    {[d EXCEPT !.prompt = PromptBlock(shape, Absent, NoList("absent"))] :
        shape \in {"absent", "null", "text", "list"}}
    \cup {[d EXCEPT !.prompt.template = Absent]}
    \cup {[d EXCEPT !.prompt.placeholders = NoList(shape)] :
             shape \in {"absent", "null", "text", "mapping"}}
    \cup {[d EXCEPT !.prompt.placeholders.items = Append(@, v)] :
             v \in {Number(<<"1">>), Null, Scalar("mapping", <<>>)}}

WrongInterface(d) ==
    {[d EXCEPT !.interface = InterfaceBlock(shape, Absent, NoList("absent"), NoList("absent"))] :
        shape \in {"absent", "null", "text", "list", "number"}}
    \cup {[d EXCEPT !.interface.intent = Absent]}
    \cup {[d EXCEPT !.interface.inputs = NoList(shape)] :
             shape \in {"absent", "null", "number", "text", "mapping"}}
    \cup {[d EXCEPT !.interface.outputs = NoList(shape)] : shape \in {"absent", "null", "text"}}
    \cup {[d EXCEPT !.interface.inputs.items = Append(@, v)] :
             v \in {NoInput,
                    InterfaceInput("mapping", Absent, Text(<<"t">>), Text(<<"d">>), Flag),
                    InterfaceInput("mapping", Text(<<"x">>), Absent, Text(<<"d">>), Flag),
                    InterfaceInput("mapping", Text(<<"x">>), Text(<<"t">>), Absent, Flag),
                    InterfaceInput("mapping", Text(<<"x">>), Text(<<"t">>), Text(<<"d">>), Absent)}}
    \cup {[d EXCEPT !.interface.outputs.items = Append(@, v)] :
             v \in {NoOutput,
                    InterfaceOutput("mapping", Absent, Text(<<"d">>)),
                    InterfaceOutput("mapping", Text(<<"s">>), Absent)}}

RawModules ==
    CompleteModules
    \cup UNION {WrongModule(d) \cup WrongPrompt(d) \cup WrongInterface(d) : d \in CompleteModules}

InitValidate ==
    /\ EmptyRegistry
    /\ IdleResolver
    /\ IdleSelect
    /\ IdleSemver
    /\ IdleProcesses
    /\ yamlDoc \in RawModules
    /\ checked = NotChecked

Outcome(call, result, code, exit) ==
    [call |-> call, raised |-> result.raised, message |-> result.message, value |-> result.value,
     code |-> code, exit |-> exit]

\* validate_prompt_module(module)
ValidateModuleStep ==
    /\ checked' = Outcome("validate_prompt_module", ValidateRawModule(yamlDoc), "", -1)
    /\ UNCHANGED <<yamlDoc, registryVars, resolverVars, selectVars, semverVars, processVars>>

\* promptpm validate from the loaded document on: `except ValidationError`,
\* then `except Exception`, else success
ValidateLoadedStep ==
    /\ \E result \in {ValidateRawModule(yamlDoc)} :
          IF result.raised = "" THEN checked' = Outcome("validate", result, "", SUCCESS_EXIT_CODE)
          ELSE \E c \in {Caught({"ValidationError"}, result)} :
                  checked' = Outcome("validate", result, c.code, c.exit)
    /\ UNCHANGED <<yamlDoc, registryVars, resolverVars, selectVars, semverVars, processVars>>

NextValidate ==
    \/ ValidateModuleStep
    \/ ValidateLoadedStep

SpecValidate == InitValidate /\ [][NextValidate]_vars
(***************************************************************************)
(* C22: every placeholder is the name of an input                          *)
(***************************************************************************)
AllOf(listing, Good(_)) ==
    listing.shape = "list" /\ \A i \in DOMAIN listing.items : Good(listing.items[i])

IsText(value) == value.shape = "text"

CompleteInput(inp) ==
    IsMapping(inp) /\ IsText(inp.name) /\ Has(inp.type) /\ Has(inp.description) /\ Has(inp.required)

CompleteOutput(out) == IsMapping(out) /\ Has(out.type) /\ Has(out.description)

\* Every block is a mapping with its required fields, the lists are lists,
\* and placeholders and input names are texts.
StructurallyComplete(d) ==
    /\ IsMapping(d.module)
    /\ IsText(d.module.name) /\ d.module.name.text # <<>>
    /\ IsText(d.module.version)
    /\ Has(d.module.description)
    /\ IsMapping(d.prompt)
    /\ Has(d.prompt.template)
    /\ AllOf(d.prompt.placeholders, IsText)
    /\ IsMapping(d.interface)
    /\ Has(d.interface.intent)
    /\ AllOf(d.interface.inputs, CompleteInput)
    /\ AllOf(d.interface.outputs, CompleteOutput)

PlaceholdersOf(d) == {d.prompt.placeholders.items[i].text : i \in DOMAIN d.prompt.placeholders.items}

InputNamesOf(d) == {d.interface.inputs.items[i].name.text : i \in DOMAIN d.interface.inputs.items}

\* The names a message lists after the colon, in the order it lists them.
NamesListed(value) ==
    IF value = <<>> THEN <<>>
    ELSE [i \in DOMAIN Split(value, ",") |-> Strip(Split(value, ",")[i])]

Ascending(names) == \A i \in 1..(Len(names) - 1) : StrLess(names[i], names[i + 1])

ValidateCalled == checked.call \in {"validate_prompt_module", "validate"}

\* C22: validate_prompt_module accepts a structurally complete module exactly
\* when every placeholder is the name of an input (inputs no placeholder uses
\* are allowed); otherwise it raises ValidationError "Undeclared placeholders
\* used in template" listing exactly the undeclared names, each once, in
\* ascending order.
C22_PlaceholdersAreInputs ==
    ValidateCalled /\ StructurallyComplete(yamlDoc) =>
        IF PlaceholdersOf(yamlDoc) \subseteq InputNamesOf(yamlDoc)
        THEN checked.raised = ""
        ELSE /\ checked.raised = "ValidationError"
             /\ checked.message = "Undeclared placeholders used in template"
             /\ Range(NamesListed(checked.value)) = PlaceholdersOf(yamlDoc) \ InputNamesOf(yamlDoc)
             /\ Ascending(NamesListed(checked.value))

\* Two undeclared placeholders, one of them given twice and given in
\* descending order, were listed next to a declared one that was not.
C22_Witness ==
    /\ checked.call = "validate_prompt_module"
    /\ StructurallyComplete(yamlDoc)
    /\ Len(yamlDoc.prompt.placeholders.items) = 3
    /\ checked.raised = "ValidationError"
    /\ NamesListed(checked.value) = <<<<"Z">>, <<"c">>>>

\* A module with an input no placeholder uses was accepted.
C22_UnusedInputAccepted ==
    /\ checked.call = "validate_prompt_module"
    /\ StructurallyComplete(yamlDoc)
    /\ checked.raised = ""
    /\ InputNamesOf(yamlDoc) \ PlaceholdersOf(yamlDoc) # {}
    /\ PlaceholdersOf(yamlDoc) # {}

(***************************************************************************)
(* C29: a schema violation is a ValidationError                            *)
(***************************************************************************)
\* C29: every schema violation of a loaded document (a missing or
\* non-mapping block, inputs or outputs that are not a list, entries that are
\* not mappings or lack a field, placeholders that are not a list of texts)
\* is raised by validate_prompt_module as ValidationError, and the validate
\* command reports it as VALIDATION_ERROR with exit 1.
C29_SchemaViolationIsValidationError ==
    ValidateCalled /\ ~StructurallyComplete(yamlDoc) =>
        /\ checked.raised = "ValidationError"
        /\ checked.call = "validate" =>
              checked.code = "VALIDATION_ERROR" /\ checked.exit = VALIDATION_EXIT_CODE

\* The interface block is a mapping and its inputs can be iterated: what
\* _validate_prompt_block reads before _validate_interface has checked it.
InterfaceReadable(d) ==
    IsMapping(d.interface) /\ d.interface.inputs.shape \notin {"null", "number"}

\* The placeholders are texts, or are all declared.
PlaceholdersReportable(d) ==
    d.prompt.placeholders.shape = "list" =>
        /\ \A i \in DOMAIN d.prompt.placeholders.items :
              d.prompt.placeholders.items[i].shape \notin {"list", "mapping"}
        /\ \A i \in DOMAIN d.prompt.placeholders.items :
              \/ IsText(d.prompt.placeholders.items[i])
              \/ \E j \in DOMAIN d.interface.inputs.items :
                    /\ IsMapping(d.interface.inputs.items[j])
                    /\ d.interface.inputs.items[j].name = d.prompt.placeholders.items[i]

\* What holds: the violations of the module block and of the prompt block's
\* own fields are ValidationErrors, and so are those of the interface block
\* when _validate_prompt_block could read it.
SchemaViolationIsValidationErrorWhenReadable ==
    /\ ValidateCalled
    /\ ~StructurallyComplete(yamlDoc)
    /\ \/ ~IsMapping(yamlDoc.module)
       \/ ValidateModuleMetadata(yamlDoc.module).raised # ""
       \/ ~IsMapping(yamlDoc.prompt)
       \/ ~Has(yamlDoc.prompt.template)
       \/ ~Has(yamlDoc.interface)
       \/ InterfaceReadable(yamlDoc) /\ PlaceholdersReportable(yamlDoc)
    => checked.raised = "ValidationError"

\* An interface block that is null made the validate command exit 5 with
\* INTERNAL_ERROR.
InterfaceNotMappingIsInternalError ==
    /\ checked.call = "validate"
    /\ yamlDoc.interface.shape = "null"
    /\ checked.raised = "AttributeError"
    /\ checked.code = "INTERNAL_ERROR"
    /\ checked.exit = INTERNAL_EXIT_CODE

\* interface.inputs that is a number made validate_prompt_module raise TypeError.
InputsNotIterableIsTypeError ==
    /\ checked.call = "validate_prompt_module"
    /\ yamlDoc.interface.inputs.shape = "number"
    /\ checked.raised = "TypeError"

(***************************************************************************)
(* install over requirements that cannot be answered                       *)
(***************************************************************************)
\* "e" is not installed, no installed "a" satisfies ^3.0.0, and "^" and
\* ">=" are no range expressions.
RequirePool ==
    {Declared(<<"a">>, <<"*">>), Declared(<<"a">>, <<"^", "3", ".", "0", ".", "0">>), Declared(<<"a">>, <<"^">>),
     Declared(<<"b">>, <<"*">>), Declared(<<"b">>, <<">", "=">>), Declared(<<"c">>, <<"*">>),
     Declared(<<"e">>, <<"*">>), Declared(<<"e">>, <<"^">>)}

RequireLists ==
    {l \in UNION {[1..n -> RequirePool] : n \in 0..MaxDeps} :
        \A i, j \in DOMAIN l : i # j => l[i] # l[j]}

\* a@1.0.0 and b@1.0.0 installed with the given dependencies lists, c@1.0.0
\* with none.
RequireRegistry(a, b) ==
    InstallAll(<<>>, <<SourceTree(<<"a">>, <<"1", ".", "0", ".", "0">>, a, "plain"),
                       SourceTree(<<"b">>, <<"1", ".", "0", ".", "0">>, b, "plain"),
                       SourceTree(<<"c">>, <<"1", ".", "0", ".", "0">>, <<>>, "plain")>>)

\* The module directory install runs in.
RequireRoot(dependencies) ==
    Module(TestedDocument(<<"r">>, <<"1", ".", "0", ".", "0">>, dependencies, "valid", <<>>))

InitRequire ==
    /\ \E root \in RequireLists :
       \E a \in {l \in RequireLists : Len(l) <= MaxEdges - Len(root)} :
       \E b \in {l \in RequireLists : Len(l) <= MaxEdges - Len(root) - Len(a)} :
          /\ cwd = RequireRoot(root)
          /\ \E registry \in {RequireRegistry(a, b)} :
                /\ disk = registry
                /\ published = PublishedOf(registry)
    /\ op = NoCall
    /\ tampers = 0
    /\ IdleResolver
    /\ IdleSelect /\ IdleSchema /\ IdleSemver
    /\ installers = <<>>
    /\ command = NoCommand

NextRequire ==
    \/ InstallCommandStartStep
    \/ ResolveBegin
    \/ SelectFails
    \/ VisitVisited
    \/ VisitCycle
    \/ VisitEnter
    \/ VisitReturn
    \/ Return
    \/ Unwind
    \/ InstallCommandFinish

SpecRequire == InitRequire /\ [][NextRequire]_vars

\* The requirements of the root and of every module selected from it.
ReachableRequirements == UNION {RequirementsOf(m) : m \in Reached \cup {NoModule}}

NotInstalled(req) == InstalledVersions(disk, req.name) = {}

InvalidRange(req) == ~ParseVersionRange(req.version_range).ok

NoneSatisfies(req) ==
    /\ ~NotInstalled(req)
    /\ ~InvalidRange(req)
    /\ Satisfying(disk, req.name, req.version_range) = {}

Unanswerable(req) == NotInstalled(req) \/ InvalidRange(req) \/ NoneSatisfies(req)

\* What the resolver raises with: its own messages are all DependencyError.
DependencyMessages ==
    {"Dependency not found", "No installed versions satisfy dependency",
     "Invalid semantic version while resolving", "Cyclic dependency detected",
     "dependency entry is invalid"}

\* The failing requirement is the one the resolver stopped at.
StoppedAt == DependencySpec(Top.deps[Top.next].name, Top.deps[Top.next].version_range)

\* What install prints and exits with for a DependencyError.
DependencyFailure(message) ==
    <<ErrorPayload("install", "DEPENDENCY_ERROR", message,
                   "Ensure all dependencies are available in the local registry",
                   "module_path")>>

ResolverEnded == command.pc = "resolving" /\ status \in {"done", "error"}

\* C23: when a requirement of the root or of a module selected from it names
\* no installed module, has no installed version in its range, or has a
\* range that is no range expression, resolve_for_module does not return: it
\* raises DependencyError, the error it raises at such a requirement carries
\* the message of that case, and install prints the error alone, without
\* any resolved entry, and exits 3.
C23_UnanswerableRequirementFails ==
    /\ [](ResolverEnded /\ (\E req \in ReachableRequirements : Unanswerable(req))
            => status = "error" /\ failure.message \in DependencyMessages)
    /\ [][Iterating /\ status' = "raising" /\ failure'.message # "Cyclic dependency detected"
            => /\ Unanswerable(StoppedAt)
               /\ NotInstalled(StoppedAt) <=> failure'.message = "Dependency not found"
               /\ NoneSatisfies(StoppedAt)
                    <=> failure'.message = "No installed versions satisfy dependency"
               /\ InvalidRange(StoppedAt) /\ ~NotInstalled(StoppedAt)
                    <=> failure'.message = "Invalid semantic version while resolving"]_vars
    /\ [][ResolverEnded /\ status = "error" /\ command'.pc = "ready"
            => /\ command'.emitted = DependencyFailure(failure.message)
               /\ command'.exit = DEPENDENCY_EXIT_CODE]_vars

\* install has exited 3 for a root whose one dependency is not installed.
C23_Witness ==
    /\ Exited
    /\ command.operation = "install"
    /\ LoadValid(cwd).value.dependencies = <<Declared(<<"e">>, <<"*">>)>>
    /\ command.emitted = DependencyFailure("Dependency not found")
    /\ command.exit = DEPENDENCY_EXIT_CODE

\* a@1.0.0 was entered and emitted before the resolver stopped at a range
\* of b that is no range expression.
C23_InvalidRangeAfterEmit ==
    /\ status = "error"
    /\ failure.message = "Invalid semantic version while resolving"
    /\ resolved # <<>>
    /\ \E req \in RequirementsOf(NoModule) : req.name = <<"b">> /\ InvalidRange(req)

\* The unsatisfiable range is declared by a dependency, not by the root.
C23_NoneSatisfiesBelowRoot ==
    /\ status = "error"
    /\ failure.message = "No installed versions satisfy dependency"
    /\ \A req \in RequirementsOf(NoModule) : ~Unanswerable(req)

(***************************************************************************)
(* Shared dependencies                                                     *)
(***************************************************************************)
\* The modules that declare a requirement answered by this module.
ParentsOf(module) == {p \in Reached \cup {NoModule} : module \in Children(p)}

\* The loop is at a dependency whose module has been completed before.
MeetsCompleted == Iterating /\ Selected.ok /\ NodeId(Selected.module) \in visited

\* C28: the list the resolver builds, and so its output, holds no
\* name@version twice, and each completed node is in it once; the step that
\* meets a completed node again leaves the output, the path and the set of
\* completed nodes as they are and enters no activation: it only moves on
\* to the next dependency.
C28_SharedDependencyOnce ==
    /\ [](/\ \A i, j \in DOMAIN resolved :
                NodeId(resolved[i]) = NodeId(resolved[j]) => i = j
          /\ visited = {NodeId(resolved[i]) : i \in DOMAIN resolved})
    /\ [][MeetsCompleted =>
            /\ resolved' = resolved
            /\ visiting' = visiting
            /\ visited' = visited
            /\ status' = status
            /\ frames' = Advance(frames)]_vars

\* The resolver returned for a module two declare, and it is in the output
\* once.
C28_Witness ==
    /\ status = "done"
    /\ \E m \in Reached :
          /\ Cardinality(ParentsOf(m)) >= 2
          /\ Cardinality(Positions(m)) = 1

(***************************************************************************)
(* install in a module directory whose name and version are installed      *)
(***************************************************************************)
RootPool ==
    {Declared(<<"a">>, <<"*">>), Declared(<<"b">>, <<"*">>), Declared(<<"c">>, <<"*">>),
     Declared(<<"e">>, <<"*">>)}

RootLists ==
    {l \in UNION {[1..n -> RootPool] : n \in 0..MaxDeps} :
        \A i, j \in DOMAIN l : i # j => l[i] # l[j]}

\* The names of the module directory: "a" is installed at 1.0.0, "r" is not.
RootNames == {<<"a">>, <<"r">>}

\* The working copy of a module: its dependencies list is its own, whatever
\* the registry holds under its name and version.
InitRoot ==
    /\ \E name \in RootNames :
       \E root \in RootLists :
       \E a \in {l \in RootLists : Len(l) <= MaxEdges - Len(root)} :
       \E b \in {l \in RootLists : Len(l) <= MaxEdges - Len(root) - Len(a)} :
          /\ cwd = Module(TestedDocument(name, <<"1", ".", "0", ".", "0">>, root, "valid", <<>>))
          /\ \E registry \in {RequireRegistry(a, b)} :
                /\ disk = registry
                /\ published = PublishedOf(registry)
    /\ op = NoCall
    /\ tampers = 0
    /\ IdleResolver
    /\ IdleSelect /\ IdleSchema /\ IdleSemver
    /\ installers = <<>>
    /\ command = NoCommand

SpecRoot == InitRoot /\ [][NextRequire]_vars

\* module.name and module.version of the module install was run on.
RootIdentity == <<cwd.files[ConfigPath].name, cwd.files[ConfigPath].version>>

Identities(list) == {<<list[i].name, list[i].version>> : i \in DOMAIN list}

\* C27: the output of resolve_for_module has no entry with the name and
\* version of the root module.
C27_RootNotEmitted ==
    ResolverEnded /\ status = "done" => RootIdentity \notin Identities(resolved)

\* The output holds the root's name and version only when the registry
\* holds a module of that name and version that a dependency of the root
\* leads to.
RootEmittedOnlyFromRegistry ==
    ResolverEnded /\ status = "done" /\ RootIdentity \in Identities(resolved) =>
        /\ HasVersion(disk, RootIdentity[1], RootIdentity[2])
        /\ InstalledModule(RootIdentity[1], RootIdentity[2]) \in Reached

\* The working copy of a@1.0.0 depends on b, the installed b@1.0.0 depends
\* on a, and the installed a@1.0.0 on nothing: the output is a@1.0.0, b@1.0.0.
C27_RootEmitted ==
    /\ ResolverEnded /\ status = "done"
    /\ RootIdentity = <<<<"a">>, <<"1", ".", "0", ".", "0">>>>
    /\ rootRaw = <<Declared(<<"b">>, <<"*">>)>>
    /\ resolved = <<Record(InstalledModule(<<"a">>, <<"1", ".", "0", ".", "0">>)),
                    Record(InstalledModule(<<"b">>, <<"1", ".", "0", ".", "0">>))>>

\* A root that is not installed is not in the output.
RootAbsentWhenNotInstalled ==
    /\ ResolverEnded /\ status = "done"
    /\ ~HasVersion(disk, RootIdentity[1], RootIdentity[2])
    /\ resolved # <<>>

(***************************************************************************)
(* Termination of resolve_for_module                                       *)
(***************************************************************************)
\* The resolver called on the roots and registries of RootLists.
InitTerminate ==
    /\ \E root \in RootLists :
       \E a \in {l \in RootLists : Len(l) <= MaxEdges - Len(root)} :
       \E b \in {l \in RootLists : Len(l) <= MaxEdges - Len(root) - Len(a)} :
          /\ rootRaw = root
          /\ \E registry \in {RequireRegistry(a, b)} :
                /\ disk = registry
                /\ published = PublishedOf(registry)
    /\ op = NoCall
    /\ tampers = 0
    /\ status = "idle"
    /\ frames = <<>>
    /\ visiting = <<>>
    /\ visited = {}
    /\ resolved = <<>>
    /\ failure = NoFailure
    /\ IdleSelect /\ IdleSchema /\ IdleSemver
    /\ IdleProcesses

\* Weak fairness of one iteration of the loop, the action
\* SelectFails \/ VisitVisited \/ VisitCycle \/ VisitEnter, written out as
\* []<>~ENABLED <<A>>_vars \/ []<><<A>>_vars: an iteration is enabled
\* exactly when Iterating holds (the selection raises or answers, and an
\* answer is completed, on the path, or new), and it is the only step that
\* changes the state then.
IterateFair == []<>~Iterating \/ []<><<Iterating>>_vars

\* resolve_for_module is one sequential call: a step that can be taken is
\* taken.
SpecResolveFair ==
    /\ InitTerminate
    /\ [][NextResolve]_vars
    /\ WF_vars(Begin)
    /\ IterateFair
    /\ WF_vars(VisitReturn)
    /\ WF_vars(Return)
    /\ WF_vars(Unwind)

ResolveEnded == status \in {"done", "error"}

\* C30: resolve_for_module ends, by returning or by raising; when it has
\* ended the path and the activations are empty; and no node is expanded
\* twice: a node is entered only when it is neither completed nor on the
\* path, a node that leaves the path of a running resolution is completed,
\* and a completed node stays completed.
C30_ResolveTerminates ==
    /\ <>ResolveEnded
    /\ [](ResolveEnded => visiting = <<>> /\ frames = <<>>)
    /\ [][/\ Len(frames') > Len(frames) /\ frames # <<>> =>
                /\ NodeId(frames'[Len(frames')].module) \notin visited
                /\ NodeId(frames'[Len(frames')].module) \notin Range(visiting)
                /\ visiting' = Append(visiting, NodeId(frames'[Len(frames')].module))
          /\ status' = "running" /\ Len(visiting') < Len(visiting) =>
                visiting[Len(visiting)] \in visited'
          /\ visited \subseteq visited']_vars

\* The resolver raised inside an activation, after completing a node, and
\* the path is empty.
C30_Witness ==
    /\ status = "error"
    /\ failure.message = "Cyclic dependency detected"
    /\ visited # {}
    /\ visiting = <<>>
    /\ frames = <<>>

\* The resolver returned after entering three nodes.
C30_Returned ==
    /\ status = "done"
    /\ Cardinality(visited) = 3
    /\ visiting = <<>>

(***************************************************************************)
(* The --registry option of install, publish, list and info                *)
(***************************************************************************)
\* The default registry and values that are no local path: a URL, "http:"
\* and "https:" without "//", and another scheme.
PathValues ==
    {<<".", "p", "r", "o", "m", "p", "t", "p", "m", "_", "r", "e", "g", "i", "s", "t", "r", "y">>, <<"h", "t", "t", "p", "s", ":", "/", "/", "r">>, <<"h", "t", "t", "p", ":", "r">>, <<"h", "t", "t", "p", "s", ":", "r">>, <<"s", "3", ":", "/", "/", "r">>}

\* "a" with passing and with failing tests, "b" that depends on "a", "c"
\* that depends on "a", "b" and itself, and a document that does not
\* validate.
PathDirs ==
    {Module(TestedDocument(<<"a">>, <<"1", ".", "0", ".", "0">>, <<>>, "valid", Passing)),
     Module(TestedDocument(<<"a">>, <<"1", ".", "0", ".", "0">>, <<>>, "valid", Failing)),
     Module(TestedDocument(<<"b">>, <<"1", ".", "0", ".", "0">>, <<Declared(<<"a">>, <<"^", "1", ".", "0", ".", "0">>)>>, "valid", <<>>)),
     Module(TestedDocument(<<"c">>, <<"1", ".", "0", ".", "0">>,
                           <<Declared(<<"c">>, <<"*">>), Declared(<<"b">>, <<"*">>), Declared(<<"a">>, <<"*">>)>>,
                           "valid", <<>>)),
     Module(TestedDocument(<<"a">>, <<"2", ".", "0", ".", "0">>, <<>>, "invalid", Passing))}

InitPath ==
    /\ EmptyRegistry
    /\ IdleResolver
    /\ IdleSelect /\ IdleSchema /\ IdleSemver
    /\ installers = <<>>
    /\ cwd \in PathDirs
    /\ command = NoCommand

PathChangeDirectory ==
    /\ Ready
    /\ cwd' \in PathDirs \ {cwd}
    /\ command' = NoCommand
    /\ UNCHANGED <<registryVars, resolverVars, selectVars, schemaVars, semverVars, installers>>

PathListStep == \E registryRaw \in PathValues, quiet \in BOOLEAN : ListCommand(registryRaw, quiet)

PathInfoStep ==
    \E registryRaw \in PathValues, moduleName \in InfoNames, quiet \in BOOLEAN :
        InfoCommand(registryRaw, moduleName, quiet)

PathInstallStep ==
    \E registryRaw \in PathValues, quiet \in BOOLEAN : InstallCommandStart(registryRaw, quiet)

PathPublishStep ==
    \E registryRaw \in PathValues, quiet \in BOOLEAN : PublishValidate(registryRaw, quiet)

NextPath ==
    \/ PathChangeDirectory
    \/ PathListStep
    \/ PathInfoStep
    \/ PathInstallStep
    \/ ResolveBegin
    \/ SelectFails
    \/ VisitVisited
    \/ VisitCycle
    \/ VisitEnter
    \/ VisitReturn
    \/ Return
    \/ Unwind
    \/ InstallCommandFinish
    \/ PathPublishStep
    \/ PublishTests
    \/ PublishHasVersion
    \/ PublishInstallStep

SpecPath == InitPath /\ [][NextPath]_vars

\* The value contains "://" or begins with "http:" or "https:".
NotLocal(registryRaw) ==
    \/ \E i \in 1..(Len(registryRaw) - 2) : SubSeq(registryRaw, i, i + 2) = <<":", "/", "/">>
    \/ Len(registryRaw) >= 5 /\ SubSeq(registryRaw, 1, 5) = <<"h", "t", "t", "p", ":">>
    \/ Len(registryRaw) >= 6 /\ SubSeq(registryRaw, 1, 6) = <<"h", "t", "t", "p", "s", ":">>

\* The command of this operation ended in its first step, exit 3, with the
\* one error payload DEPENDENCY_ERROR 'local filesystem path', having taken
\* no step on the module and left the registry as it was.
RejectedAsNotLocal(operation, before, after, diskAfter) ==
    /\ after.operation = operation
    /\ after.pc = "ready"
    /\ after.exit = DEPENDENCY_EXIT_CODE
    /\ after.steps = <<>>
    /\ Len(after.emitted) = 1
    /\ after.emitted[1].ok = FALSE
    /\ after.emitted[1].error.code = "DEPENDENCY_ERROR"
    /\ after.emitted[1].error.message = "Registry must be a local filesystem path"
    /\ diskAfter = before

\* The step ends a command of this operation as RejectedAsNotLocal says.
RefusedStep(operation) == RejectedAsNotLocal(operation, disk, command', disk')

\* The step is the first of a command of this operation.
Started(operation, quiet) ==
    Ready /\ command'.operation = operation /\ command'.quiet = quiet

\* C25: install, publish, list and info given a --registry value that
\* contains "://" or begins with "http:" or "https:" end at once with
\* DEPENDENCY_ERROR (exit 3, 'local filesystem path'), whatever the module
\* directory and the registry hold: no validation, test or conflict outcome
\* is reported, and the registry is not changed. (Each line reads "a step
\* of the command with such a value is a refusal".)
C25_RegistryPathCheckedFirst ==
    [][\A registryRaw \in {p \in PathValues : NotLocal(p)}, quiet \in BOOLEAN :
          /\ RefusedStep("list")
                \/ ~(Started("list", quiet) /\ ListCommand(registryRaw, quiet))
          /\ RefusedStep("info")
                \/ ~(/\ Started("info", quiet)
                     /\ \E moduleName \in InfoNames : InfoCommand(registryRaw, moduleName, quiet))
          /\ RefusedStep("install")
                \/ ~(Started("install", quiet) /\ InstallCommandStart(registryRaw, quiet))
          /\ RefusedStep("publish")
                \/ ~(Started("publish", quiet) /\ PublishValidate(registryRaw, quiet))]_vars

\* publish was refused for the registry value in a directory whose module
\* does not validate.
C25_Witness ==
    /\ RejectedAsNotLocal("publish", disk, command, disk)
    /\ LoadValid(cwd).raised = "ValidationError"

\* publish was refused for the registry value where the module's tests fail.
C25_OverTestFailure ==
    /\ RejectedAsNotLocal("publish", disk, command, disk)
    /\ LoadValid(cwd).raised = ""
    /\ RunPromptModuleTests(cwd).value.failed > 0

\* publish was refused for the registry value where the version is already
\* published.
C25_OverConflict ==
    /\ RejectedAsNotLocal("publish", disk, command, disk)
    /\ LoadValid(cwd).raised = ""
    /\ HasVersion(disk, cwd.files[ConfigPath].name, cwd.files[ConfigPath].version)

\* install was refused for the registry value where a dependency is missing.
C25_OverMissingDependency ==
    /\ RejectedAsNotLocal("install", disk, command, disk)
    /\ disk = <<>>
    /\ LoadValid(cwd).raised = ""
    /\ LoadValid(cwd).value.dependencies # <<>>

(***************************************************************************)
(* test_runner.py assertion by assertion, on parsed test cases             *)
(***************************************************************************)
\* An assertion value: a str or an int.
StrValue(s) == [shape |-> "text", text |-> s, number |-> 0]

IntValue(n) == [shape |-> "int", text |-> <<>>, number |-> n]

\* A one-key mapping {type: value} of a test case's assertions list.
AssertionOf(type, value) == [type |-> type, value |-> value]

\* A test case mapping: name, inputs (key -> text) and assertions.
RawTest(name, inputs, assertions) ==
    [name |-> name, inputs |-> inputs, assertions |-> assertions]

\* The module as run_prompt_module_tests sees it once loaded and validated:
\* the text of the template file and the tests list.
TestsDocument(template, tests) == [kind |-> "tests", template |-> template, tests |-> tests]

AssertionFailure(test_name, assertion_index, assertion_type, message) ==
    [test_name |-> test_name, assertion_index |-> assertion_index,
     assertion_type |-> assertion_type, message |-> message]

RECURSIVE ReplaceAll(_, _, _)
\* str.replace(old, new) for a non-empty old
ReplaceAll(text, old, new) ==
    IF Len(text) < Len(old) THEN text
    ELSE IF SubSeq(text, 1, Len(old)) = old
    THEN new \o ReplaceAll(SubSeq(text, Len(old) + 1, Len(text)), old, new)
    ELSE <<text[1]>> \o ReplaceAll(Tail(text), old, new)

RECURSIVE RenderKeys(_, _, _)
\* for key in sorted(inputs): replace {{key}} and then {key}
RenderKeys(rendered, inputs, keys) ==
    LET Replaced(key) ==
            ReplaceAll(ReplaceAll(rendered, <<"{", "{">> \o key \o <<"}", "}">>, inputs[key]),
                       <<"{">> \o key \o <<"}">>, inputs[key])
        Rest(key) == RenderKeys(Replaced(key), inputs, keys \ {key})
    IN  IF keys = {} THEN rendered
        ELSE Rest(CHOOSE k \in keys : \A other \in keys : other = k \/ StrLess(k, other))

\* _render_template(template, inputs, module_root) for input values that are
\* texts and name no file of the module
RenderTemplate(template, inputs) == RenderKeys(template, inputs, DOMAIN inputs)

\* json.loads on the rendered texts that occur: the type of the parsed
\* value, "invalid" for JSONDecodeError.
JsonLoads(text) ==
    IF text = <<"{", "}">> THEN "dict"
    ELSE IF text = <<"[", "]">> THEN "list"
    ELSE IF text # <<>> /\ \A i \in DOMAIN text : IsDigit(text[i]) /\ (Len(text) = 1 \/ text[1] # "0")
    THEN "int"
    ELSE "invalid"

\* _evaluate_structure_assertion for a value that is a str or an int
EvaluateStructureAssertion(test_name, assertion_index, output_text, assertion_value) ==
    LET Failed(message) ==
            Returned(<<AssertionFailure(test_name, assertion_index, <<"s", "t", "r", "u", "c", "t", "u", "r", "e">>, message)>>)
        Decoded(expected_type, parsed_output) ==
            IF parsed_output = "invalid" THEN Failed("Expected valid JSON output")
            ELSE IF expected_type = <<"j", "s", "o", "n", "_", "o", "b", "j", "e", "c", "t">> /\ parsed_output # "dict"
            THEN Failed("Expected JSON object output")
            ELSE IF expected_type = <<"j", "s", "o", "n", "_", "a", "r", "r", "a", "y">> /\ parsed_output # "list"
            THEN Failed("Expected JSON array output")
            ELSE Returned(<<>>)
    IN  IF assertion_value.shape # "text"
        THEN Raised("ValidationError", "structure assertion must be a string or mapping")
        ELSE IF assertion_value.text \notin {<<"j", "s", "o", "n", "_", "o", "b", "j", "e", "c", "t">>, <<"j", "s", "o", "n", "_", "a", "r", "r", "a", "y">>}
        THEN Raised("ValidationError", "Unsupported structure type")
        ELSE Decoded(assertion_value.text, JsonLoads(output_text))

\* Variant: an assertion of another type is passed over.
EvaluateAssertionLenient(test_name, index, output_text, assertion) ==
    LET Failed(message) ==
            Returned(<<AssertionFailure(test_name, index, assertion.type, message)>>)
    IN  IF assertion.type = <<"c", "o", "n", "t", "a", "i", "n", "s">>
        THEN IF assertion.value.shape # "text"
             THEN Raised("ValidationError", "assertion must be a string")
             ELSE IF ~Contains(output_text, assertion.value.text)
             THEN Failed("Expected output to contain")
             ELSE Returned(<<>>)
        ELSE IF assertion.type = <<"e", "x", "c", "l", "u", "d", "e", "s">>
        THEN IF assertion.value.shape # "text"
             THEN Raised("ValidationError", "assertion must be a string")
             ELSE IF Contains(output_text, assertion.value.text)
             THEN Failed("Expected output to exclude")
             ELSE Returned(<<>>)
        ELSE IF assertion.type = <<"m", "a", "x", "_", "l", "e", "n", "g", "t", "h">>
        THEN IF assertion.value.shape # "int" \/ assertion.value.number < 0
             THEN Raised("ValidationError", "assertion must be a non-negative integer")
             ELSE IF Len(output_text) > assertion.value.number
             THEN Failed("Expected output length <=")
             ELSE Returned(<<>>)
        ELSE IF assertion.type = <<"s", "t", "r", "u", "c", "t", "u", "r", "e">>
        THEN EvaluateStructureAssertion(test_name, index, output_text, assertion.value)
        ELSE Returned(<<>>)

\* The body of the loop of _evaluate_assertions: the failures of one
\* assertion (none or one), or the ValidationError it raises.
EvaluateAssertion(test_name, index, output_text, assertion) ==
    LET Failed(message) ==
            Returned(<<AssertionFailure(test_name, index, assertion.type, message)>>)
    IN  IF assertion.type = <<"c", "o", "n", "t", "a", "i", "n", "s">>
        THEN IF assertion.value.shape # "text"
             THEN Raised("ValidationError", "assertion must be a string")
             ELSE IF ~Contains(output_text, assertion.value.text)
             THEN Failed("Expected output to contain")
             ELSE Returned(<<>>)
        ELSE IF assertion.type = <<"e", "x", "c", "l", "u", "d", "e", "s">>
        THEN IF assertion.value.shape # "text"
             THEN Raised("ValidationError", "assertion must be a string")
             ELSE IF Contains(output_text, assertion.value.text)
             THEN Failed("Expected output to exclude")
             ELSE Returned(<<>>)
        ELSE IF assertion.type = <<"m", "a", "x", "_", "l", "e", "n", "g", "t", "h">>
        THEN IF assertion.value.shape # "int" \/ assertion.value.number < 0
             THEN Raised("ValidationError", "assertion must be a non-negative integer")
             ELSE IF Len(output_text) > assertion.value.number
             THEN Failed("Expected output length <=")
             ELSE Returned(<<>>)
        ELSE IF assertion.type = <<"s", "t", "r", "u", "c", "t", "u", "r", "e">>
        THEN EvaluateStructureAssertion(test_name, index, output_text, assertion.value)
        ELSE Raised("ValidationError", "Unsupported assertion type")

RECURSIVE EvaluateFrom(_, _, _, _, _)
\* for index, assertion in enumerate(assertions), from position `next` on
\* (assertion_index is next - 1)
EvaluateFrom(test_name, output_text, assertions, next, failures) ==
    LET Went(one) ==
            IF one.raised # "" THEN one
            ELSE EvaluateFrom(test_name, output_text, assertions, next + 1, failures \o one.value)
    IN  IF next > Len(assertions) THEN Returned(failures)
        ELSE Went(EvaluateAssertion(test_name, next - 1, output_text, assertions[next]))

\* _evaluate_assertions(test_name=..., output_text=..., assertions=...)
EvaluateAssertions(test_name, output_text, assertions) ==
    EvaluateFrom(test_name, output_text, assertions, 1, <<>>)

\* run_prompt_module_tests from the parsed tests on: each case in sorted
\* order is rendered and evaluated, the first error ends the run.
RunTests(document) ==
    LET Summed(results) ==
            Returned(TestRunResult(Len(results),
                                   Cardinality({i \in DOMAIN results : results[i].passed}),
                                   Len(results) - Cardinality({i \in DOMAIN results : results[i].passed}),
                                   results))
        Ended(cases, evaluated, raising) ==
            IF raising # {} THEN evaluated[CHOOSE i \in raising : \A j \in raising : i <= j]
            ELSE Summed([i \in DOMAIN cases |->
                           [name |-> cases[i].name, passed |-> evaluated[i].value = <<>>,
                            failures |-> evaluated[i].value]])
        Evaluated(cases, evaluated) ==
            Ended(cases, evaluated, {i \in DOMAIN cases : evaluated[i].raised # ""})
        Ran(cases) ==
            Evaluated(cases,
                      [i \in DOMAIN cases |->
                         EvaluateAssertions(cases[i].name,
                                            RenderTemplate(document.template, cases[i].inputs),
                                            cases[i].assertions)])
    IN  Ran(ParseTests([i \in DOMAIN document.tests |->
                          [document.tests[i] EXCEPT !.name = Strip(@)]]))

(***************************************************************************)
(* Test cases with assertions of every kind, and one of no kind            *)
(***************************************************************************)
MaxAssertions == 3

\* contains, excludes, max_length and structure assertions that hold of some
\* rendered texts and not of others, an assertion of type "regex", and a
\* contains and a max_length assertion whose values have the wrong type.
AssertionPool ==
    {AssertionOf(<<"c", "o", "n", "t", "a", "i", "n", "s">>, StrValue(<<"h">>)), AssertionOf(<<"e", "x", "c", "l", "u", "d", "e", "s">>, StrValue(<<"h">>)),
     AssertionOf(<<"m", "a", "x", "_", "l", "e", "n", "g", "t", "h">>, IntValue(1)), AssertionOf(<<"s", "t", "r", "u", "c", "t", "u", "r", "e">>, StrValue(<<"j", "s", "o", "n", "_", "o", "b", "j", "e", "c", "t">>)),
     AssertionOf(<<"r", "e", "g", "e", "x">>, StrValue(<<"h">>)),
     AssertionOf(<<"c", "o", "n", "t", "a", "i", "n", "s">>, IntValue(5)), AssertionOf(<<"m", "a", "x", "_", "l", "e", "n", "g", "t", "h">>, StrValue(<<"1">>))}

AssertionLists(n) == UNION {[1..k -> AssertionPool] : k \in 0..n}

\* Templates: a JSON object, a text, and a text with a placeholder.
TemplateTexts == {<<"{", "}">>, <<"h", "i">>, <<"{", "{", "x", "}", "}", "{", "x", "}">>}

NoInputs == <<>>

\* Test "a" has no inputs, test "b" gives x.
InputsOf(name) == IF name = <<"b">> THEN (<<"x">> :> <<"h">>) ELSE NoInputs

\* No test, one test, or tests "a" and "b" in either order.
TestLists ==
    {<<>>}
    \cup {<<RawTest(name, InputsOf(name), l)>> :
             name \in {<<"a">>, <<"b">>}, l \in AssertionLists(MaxAssertions)}
    \cup {<<RawTest(names[1], InputsOf(names[1]), l1), RawTest(names[2], InputsOf(names[2]), l2)>> :
             names \in {<<<<"a">>, <<"b">>>>, <<<<"b">>, <<"a">>>>},
             l1 \in AssertionLists(MaxAssertions),
             l2 \in AssertionLists(MaxAssertions - 1)}

TestsDocuments ==
    {TestsDocument(template, tests) :
        template \in TemplateTexts,
        tests \in {t \in TestLists :
                     Len(t) = 2 => Len(t[1].assertions) + Len(t[2].assertions) <= MaxAssertions}}

InitAssert ==
    /\ EmptyRegistry
    /\ IdleResolver
    /\ IdleSelect
    /\ IdleSemver
    /\ IdleProcesses
    /\ yamlDoc \in TestsDocuments
    /\ checked = NotChecked

\* run_prompt_module_tests(module_path) on the loaded module
RunTestsStep ==
    /\ checked' = Outcome("run_prompt_module_tests", RunTests(yamlDoc), "", -1)
    /\ UNCHANGED <<yamlDoc, registryVars, resolverVars, selectVars, semverVars, processVars>>

\* promptpm test from the loaded module on: `except ValidationError`, then
\* `except Exception`, the failed count, else success
TestLoadedStep ==
    /\ \E ran \in {RunTests(yamlDoc)} :
          IF ran.raised # ""
          THEN \E c \in {Caught({"ValidationError"}, ran)} :
                  checked' = Outcome("test", ran, c.code, c.exit)
          ELSE IF ran.value.failed > 0
          THEN checked' = Outcome("test", ran, "TEST_FAILURE", TEST_FAILURE_EXIT_CODE)
          ELSE checked' = Outcome("test", ran, "", SUCCESS_EXIT_CODE)
    /\ UNCHANGED <<yamlDoc, registryVars, resolverVars, selectVars, semverVars, processVars>>

NextAssert ==
    \/ RunTestsStep
    \/ TestLoadedStep

SpecAssert == InitAssert /\ [][NextAssert]_vars

SupportedTypes == {<<"c", "o", "n", "t", "a", "i", "n", "s">>, <<"e", "x", "c", "l", "u", "d", "e", "s">>, <<"m", "a", "x", "_", "l", "e", "n", "g", "t", "h">>, <<"s", "t", "r", "u", "c", "t", "u", "r", "e">>}

\* Every assertion of the document, as <<case, position>>.
AssertionsOf(document) ==
    {<<c, i>> : c \in DOMAIN document.tests, i \in 1..MaxAssertions} \cap
    UNION {{<<c, i>> : i \in DOMAIN document.tests[c].assertions} : c \in DOMAIN document.tests}

AssertionAt(document, at) == document.tests[at[1]].assertions[at[2]]

HasUnsupported(document) ==
    \E at \in AssertionsOf(document) : AssertionAt(document, at).type \notin SupportedTypes

\* The value of an assertion of a supported type is of the type it takes, so
\* that the assertion passes or fails.
Evaluable(assertion) ==
    CASE assertion.type \in {<<"c", "o", "n", "t", "a", "i", "n", "s">>, <<"e", "x", "c", "l", "u", "d", "e", "s">>} -> assertion.value.shape = "text"
      [] assertion.type = <<"m", "a", "x", "_", "l", "e", "n", "g", "t", "h">> -> assertion.value.shape = "int" /\ assertion.value.number >= 0
      [] assertion.type = <<"s", "t", "r", "u", "c", "t", "u", "r", "e">> ->
            assertion.value.shape = "text" /\ assertion.value.text \in {<<"j", "s", "o", "n", "_", "o", "b", "j", "e", "c", "t">>, <<"j", "s", "o", "n", "_", "a", "r", "r", "a", "y">>}
      [] OTHER -> TRUE

OthersEvaluable(document) ==
    \A at \in AssertionsOf(document) : Evaluable(AssertionAt(document, at))

TestsRan == checked.call \in {"run_prompt_module_tests", "test"}

\* C24: when an assertion of a test case has a type other than contains,
\* excludes, max_length and structure, the run raises ValidationError and
\* returns no result, so that nothing is recorded as passed or failed, and
\* promptpm test exits 1 with VALIDATION_ERROR; when the other assertions
\* are ones that pass or fail the error is 'Unsupported assertion type',
\* wherever the assertion stands; and that error is raised for no other
\* documents.
C24_UnsupportedAssertionIsValidationError ==
    TestsRan =>
        /\ HasUnsupported(yamlDoc) =>
              /\ checked.raised = "ValidationError"
              /\ checked.value = <<>>
              /\ checked.call = "test" =>
                    checked.exit = VALIDATION_EXIT_CODE /\ checked.code = "VALIDATION_ERROR"
        /\ HasUnsupported(yamlDoc) /\ OthersEvaluable(yamlDoc) =>
              checked.message = "Unsupported assertion type"
        /\ checked.message = "Unsupported assertion type" => HasUnsupported(yamlDoc)

\* promptpm test exited 1 for a module whose first test in name order has a
\* failing assertion and whose second has the unsupported one after a
\* passing one.
C24_Witness ==
    /\ checked.call = "test"
    /\ checked.exit = VALIDATION_EXIT_CODE
    /\ checked.message = "Unsupported assertion type"
    /\ yamlDoc.template = <<"h", "i">>
    /\ yamlDoc.tests =
          <<RawTest(<<"b">>, InputsOf(<<"b">>),
                    <<AssertionOf(<<"c", "o", "n", "t", "a", "i", "n", "s">>, StrValue(<<"h">>)), AssertionOf(<<"r", "e", "g", "e", "x">>, StrValue(<<"h">>))>>),
            RawTest(<<"a">>, InputsOf(<<"a">>), <<AssertionOf(<<"e", "x", "c", "l", "u", "d", "e", "s">>, StrValue(<<"h">>))>>)>>

\* A run without an unsupported assertion ended with a failed test: exit 2.
C24_TestFailureExit ==
    /\ checked.call = "test"
    /\ checked.exit = TEST_FAILURE_EXIT_CODE
    /\ checked.value.failed = 1 /\ checked.value.passed = 1

\* An assertion whose value has the wrong type was met before the
\* unsupported one: ValidationError with the message of that assertion.
C24_OtherMessageFirst ==
    /\ TestsRan
    /\ HasUnsupported(yamlDoc)
    /\ checked.raised = "ValidationError"
    /\ checked.message = "assertion must be a string"

\* The template with a placeholder was rendered with the input of test "b".
C24_Rendered ==
    /\ TestsRan
    /\ yamlDoc.template = <<"{", "{", "x", "}", "}", "{", "x", "}">>
    /\ Len(yamlDoc.tests) = 1
    /\ yamlDoc.tests[1].name = <<"b">>
    /\ yamlDoc.tests[1].assertions = <<AssertionOf(<<"m", "a", "x", "_", "l", "e", "n", "g", "t", "h">>, IntValue(1))>>
    /\ checked.value.failed = 1

(***************************************************************************)
(* The files list of the manifest install writes                           *)
(***************************************************************************)
\* The files list of the manifest the last successful install wrote.
WrittenFiles == disk[op.name][op.version].files[ManifestPath].files

\* The POSIX relative paths of the regular files install staged, the manifest aside.
StagedPaths == PosixPaths(DOMAIN disk[op.name][op.version].files \ {ManifestPath})

\* Every staged regular file is listed exactly once and the manifest is not listed.
ListedOnceWithoutManifest ==
    (op.call = "install" /\ op.ok) =>
        /\ {WrittenFiles[i].path : i \in DOMAIN WrittenFiles} = StagedPaths
        /\ \A i, j \in DOMAIN WrittenFiles : WrittenFiles[i].path = WrittenFiles[j].path => i = j
        /\ \A i \in DOMAIN WrittenFiles : WrittenFiles[i].path # IMMUTABILITY_MANIFEST_FILENAME

\* C26: in every manifest written by install the files list is in ascending
\* order of POSIX relative path, holds each regular file of the staged tree
\* exactly once and does not hold the manifest file itself, nested
\* subdirectories included.
C26_ManifestSortedByPath ==
    /\ ListedOnceWithoutManifest
    /\ (op.call = "install" /\ op.ok) =>
          \A i, j \in DOMAIN WrittenFiles :
              i < j => StrLess(WrittenFiles[i].path, WrittenFiles[j].path)

\* An install of a tree with a file in a subdirectory has succeeded.
NestedInstalled ==
    /\ op.call = "install"
    /\ op.ok
    /\ AsPosix(NestedPath) \in StagedPaths

====
